---- MODULE Spec2Model ----
(***************************************************************************)
(* Model of packages/core/src/container.ts: the Container registry        *)
(* (factory, pipelines, wildcard caches, parent fallback) and the         *)
(* DefaultCompiler interpreter (compile, execute, executeAction).          *)
(*                                                                         *)
(* Strings are sequences of lexemes: a lexeme is a special mark ("." " "  *)
(* "*" "?" "$" "->" "//") or a block of ordinary characters.  Every        *)
(* string operation of the source (split, trim, startsWith, slice, the     *)
(* digit test) is computed on that sequence.                               *)
(***************************************************************************)
EXTENDS Integers, Sequences, FiniteSets, TLC

VARIABLES
    factory,        \* [container -> sequence of FactoryItem], Object.keys order
    bestKeys,       \* [container -> cache.bestKeys : name -> key or NullKey]
    pipelines,      \* [container -> sequence of [tag, built]], Object.keys order
    cachePipelines, \* [container -> cache.pipelines : tag -> built or NullPipeline]
    nextInst,       \* identity given to the next object made by `new`
    applyLog,       \* the applySettings invocations, in call order
    fetchLog,       \* the gets that settled on a singleton exposing applySettings
    compilers,      \* [container -> names of the registered compilers]
    configurations, \* [container -> sequence of [tag, configuration]], Object.keys order
    childPipelines, \* [container -> sequence of [childName, entries]], Object.keys order
    classes,        \* [container -> classes : name -> constructor]
    started,        \* the start() invocations on components, in call order
    starting,       \* the start invocation in progress: its keys and its position
    env,            \* what the callers pass: the arguments each call may take
    heap,           \* [object identity -> its properties], the objects pipelines touch
    stack,          \* the execute invocations in progress, innermost last
    status,         \* "idle", "running", "done" (promise resolved), "thrown" (rejected)
    result,         \* the value the outermost runPipeline resolved to
    thrown,         \* the kind of the error it rejected with
    begun,          \* how many execute invocations have begun
    parked          \* the execute invocations of a run that waits at an await

regVars == <<factory, bestKeys, pipelines, cachePipelines, nextInst,
             applyLog, fetchLog, compilers, configurations, childPipelines,
             classes, started, starting, env>>

runVars == <<heap, stack, status, result, thrown, begun, parked>>

vars == <<regVars, runVars>>

-----------------------------------------------------------------------------
(* Strings *)

StartsWith(s, p) ==
    /\ Len(s) >= Len(p)
    /\ SubSeq(s, 1, Len(p)) = p

RECURSIVE TrimLeft(_)
TrimLeft(s) ==
    IF s # <<>> /\ Head(s) = " " THEN TrimLeft(Tail(s)) ELSE s

RECURSIVE TrimRight(_)
TrimRight(s) ==
    IF s # <<>> /\ s[Len(s)] = " " THEN TrimRight(SubSeq(s, 1, Len(s) - 1)) ELSE s

Trim(s) == TrimRight(TrimLeft(s))

EndsWith(s, p) ==
    /\ Len(s) >= Len(p)
    /\ SubSeq(s, Len(s) - Len(p) + 1, Len(s)) = p

\* s.split(sep): always at least one piece
RECURSIVE Split(_, _)
Split(s, sep) ==
    IF s = <<>> THEN << <<>> >>
    ELSE IF Head(s) = sep THEN << <<>> >> \o Split(Tail(s), sep)
    ELSE LET r == Split(Tail(s), sep)
         IN  << <<Head(s)>> \o r[1] >> \o Tail(r)

RECURSIVE Join(_, _)
Join(parts, sep) ==
    IF parts = <<>> THEN <<>>
    ELSE IF Len(parts) = 1 THEN parts[1]
    ELSE parts[1] \o <<sep>> \o Join(Tail(parts), sep)

\* the statements that follow `const v = ...`
With(v, Rest(_)) == Rest(v)

-----------------------------------------------------------------------------
(* Wildcard matcher (./helper, not part of the sources at hand) *)

RECURSIVE Glob(_, _)
Glob(pattern, text) ==
    IF pattern = <<>> THEN text = <<>>
    ELSE IF Head(pattern) = "*"
         THEN \/ Glob(Tail(pattern), text)
              \/ text # <<>> /\ Glob(pattern, Tail(text))
    ELSE IF Head(pattern) = "?"
         THEN text # <<>> /\ Len(Head(text)) = 1 /\ Glob(Tail(pattern), Tail(text))
    ELSE text # <<>> /\ Head(text) = Head(pattern) /\ Glob(Tail(pattern), Tail(text))

\* commutative in intent: either side may carry the wildcards
compareWildcards(text, rule) == Glob(rule, text) \/ Glob(text, rule)

-----------------------------------------------------------------------------
(* Containers and component values *)

Containers == {"root", "child"}

\* child.parent = root; root has no parent
Parent == [c \in Containers |-> IF c = "child" THEN "root" ELSE "none"]

NullKey == <<"<null>">>
Undefined ==
    [k |-> "undefined", id |-> <<"-", 0>>, cls |-> "", nm |-> <<>>, applies |-> FALSE]

\* an object: id is its identity (<<"given", i>> for the i-th object the callers
\* own, <<"new", n>> for the n-th object made by `new`), cls its constructor's
\* name, nm its `name` property, applies whether it exposes applySettings
Object(id, cls, nm, applies) ==
    [k |-> "obj", id |-> id, cls |-> cls, nm |-> nm, applies |-> applies]

\* a constructor; applies: whether its instances expose applySettings
Class(cls, applies) ==
    [k |-> "class", id |-> <<"class", 0>>, cls |-> cls, nm |-> <<cls>>,
     applies |-> applies]

New(Clazz, n) == Object(<<"new", n>>, Clazz.cls, <<>>, Clazz.applies)

ConstructorOf(v) == Class(v.cls, v.applies)

LoggerName == <<"logger">>
logger == Object(<<"given", 0>>, "Logger", LoggerName, FALSE)

EmptyMap == [x \in {} |-> x]

\* the registry fields that register / get / use read and write
RegState == [factory |-> factory, bestKeys |-> bestKeys, nextInst |-> nextInst,
             applyLog |-> applyLog, fetchLog |-> fetchLog, compilers |-> compilers,
             pipelines |-> pipelines, cachePipelines |-> cachePipelines,
             configurations |-> configurations, childPipelines |-> childPipelines,
             classes |-> classes, started |-> started, starting |-> starting]

IndexOf(items, name) ==
    IF \E i \in 1..Len(items) : items[i].name = name
    THEN CHOOSE i \in 1..Len(items) : items[i].name = name
    ELSE 0

\* obj[name] = item on a JS object: a new key goes last, an old key keeps its place
Put(items, item) ==
    LET i == IndexOf(items, item.name)
    IN  IF i = 0 THEN Append(items, item) ELSE [items EXCEPT ![i] = item]

\* register that forgets to clear cache.bestKeys
register_KeepsCache(R, c, name, Clazz, isSingleton) ==
    LET isClass == Clazz.k = "class"
        instance == IF isSingleton
                    THEN (IF isClass THEN New(Clazz, R.nextInst) ELSE Clazz)
                    ELSE (IF isClass THEN Clazz ELSE ConstructorOf(Clazz))
        item == [name |-> name, isSingleton |-> isSingleton, instance |-> instance]
    IN  [R EXCEPT !.factory[c] = Put(@, item),
                  !.nextInst = IF isSingleton /\ isClass THEN @ + 1 ELSE @]

register(R, c, name, Clazz, isSingleton) ==
    LET isClass == Clazz.k = "class"
        makes == isSingleton /\ isClass
        instance == IF isSingleton
                    THEN (IF isClass THEN New(Clazz, R.nextInst) ELSE Clazz)
                    ELSE (IF isClass THEN Clazz ELSE ConstructorOf(Clazz))
        item == [name |-> name, isSingleton |-> isSingleton, instance |-> instance]
    IN  [R EXCEPT !.bestKeys[c] = EmptyMap,
                  !.factory[c] = Put(@, item),
                  !.nextInst = IF makes THEN @ + 1 ELSE @]

FirstMatch(items, name) ==
    IF \E i \in 1..Len(items) : compareWildcards(name, items[i].name)
    THEN CHOOSE i \in 1..Len(items) :
            /\ compareWildcards(name, items[i].name)
            /\ \A j \in 1..(i - 1) : ~compareWildcards(name, items[j].name)
    ELSE 0

\* getBestKey whose loop keeps the last matching key instead of the first
getBestKey_LastMatch(R, c, name) ==
    IF name \in DOMAIN R.bestKeys[c]
    THEN [R |-> R, key |-> R.bestKeys[c][name]]
    ELSE LET hits == {i \in 1..Len(R.factory[c]) :
                        compareWildcards(name, R.factory[c][i].name)}
             key == IF hits = {} THEN NullKey
                    ELSE R.factory[c][CHOOSE i \in hits : \A j \in hits : j <= i].name
         IN  [R |-> [R EXCEPT !.bestKeys[c] = (name :> key) @@ @], key |-> key]

getBestKey(R, c, name) ==
    IF name \in DOMAIN R.bestKeys[c]
    THEN [R |-> R, key |-> R.bestKeys[c][name]]
    ELSE LET i == FirstMatch(R.factory[c], name)
             key == IF i = 0 THEN NullKey ELSE R.factory[c][i].name
         IN  [R |-> [R EXCEPT !.bestKeys[c] = (name :> key) @@ @], key |-> key]

Truthy(key) == key # NullKey /\ key # <<>>

\* get that constructs on every call, singleton or not
Deliver_AlwaysNew(R, c, item, settings) ==
    [R |-> [R EXCEPT !.nextInst = @ + 1],
     value |-> New(item.instance, R.nextInst), by |-> c, found |-> TRUE]

\* get that leaves applySettings alone when it is given no settings
Deliver_OnlyWithSettings(R, c, item, settings) ==
    IF item.isSingleton
    THEN [R |-> IF item.instance.k = "obj" /\ item.instance.applies
                   /\ settings # "undefined"
                THEN [R EXCEPT !.applyLog =
                         Append(@, [id |-> item.instance.id, settings |-> settings])]
                ELSE R,
          value |-> item.instance, by |-> c, found |-> TRUE]
    ELSE [R |-> [R EXCEPT !.nextInst = @ + 1],
          value |-> New(item.instance, R.nextInst), by |-> c, found |-> TRUE]

\* lines 160-167 of get: what is done with the item once it is found
Deliver(R, c, item, settings) ==
    IF item.isSingleton
    THEN [R |-> IF item.instance.k = "obj" /\ item.instance.applies
                THEN [R EXCEPT !.applyLog =
                         Append(@, [id |-> item.instance.id, settings |-> settings])]
                ELSE R,
          value |-> item.instance, by |-> c, found |-> TRUE]
    ELSE [R |-> [R EXCEPT !.nextInst = @ + 1],
          value |-> New(item.instance, R.nextInst), by |-> c, found |-> TRUE]

\* the get is on record once it has settled on a singleton that exposes
\* applySettings
Fetched(R, item, settings) ==
    IF item.isSingleton /\ item.instance.k = "obj" /\ item.instance.applies
    THEN [R EXCEPT !.fetchLog =
             Append(@, [id |-> item.instance.id, settings |-> settings])]
    ELSE R

\* lines 159-167 of get, reached with the item
Serve(R, c, item, settings) == Deliver(Fetched(R, item, settings), c, item, settings)

RECURSIVE get(_, _, _, _)
get(R, c, name, settings) ==
    IF IndexOf(R.factory[c], name) # 0
    THEN Serve(R, c, R.factory[c][IndexOf(R.factory[c], name)], settings)
    ELSE IF Parent[c] # "none" THEN get(R, Parent[c], name, settings)
    ELSE With(getBestKey(R, c, name), LAMBDA b :
            IF Truthy(b.key) /\ IndexOf(b.R.factory[c], b.key) # 0
            THEN Serve(b.R, c, b.R.factory[c][IndexOf(b.R.factory[c], b.key)], settings)
            ELSE [R |-> b.R, value |-> Undefined, by |-> c, found |-> FALSE])

EndsWithCompiler(cls) == cls \in {"DefaultCompiler", "CustomCompiler"}

DefaultCompiler == Class("DefaultCompiler", FALSE)

\* the `name` a compiler instance gives itself
CompilerName(cls) == IF cls = "DefaultCompiler" THEN <<"default">> ELSE <<cls>>

\* the name is <<>> when registerCompiler is called without one
registerCompiler(R, c, Compiler, name) ==
    [R EXCEPT !.compilers[c] =
        @ \cup {IF name # <<>> THEN name ELSE CompilerName(Compiler.cls)}]

use(R, c, item, name, isSingleton, onlyIfNotExists) ==
    IF item.k = "class" /\ EndsWithCompiler(item.cls)
    THEN registerCompiler(R, c, item, <<>>)
    ELSE LET made == item.k = "class"
             instance == IF made THEN New(item, R.nextInst) ELSE item
             R1 == IF made THEN [R EXCEPT !.nextInst = @ + 1] ELSE R
             itemName == IF name # <<>> THEN name
                         ELSE IF instance.nm # <<>> THEN instance.nm
                         ELSE IF item.nm # <<>> THEN item.nm
                         ELSE <<instance.cls>>
         IN  IF ~onlyIfNotExists THEN register(R1, c, itemName, instance, isSingleton)
             ELSE With(get(R1, c, itemName, "undefined"), LAMBDA g :
                     IF ~g.found THEN register(g.R, c, itemName, instance, isSingleton)
                     ELSE g.R)

-----------------------------------------------------------------------------
(* DefaultCompiler: tokenizer *)

NoValue == <<"<undefined>">>

OpWords == {"set", "delete", "get", "inc", "dec", "eq", "neq", "gt", "ge",
            "lt", "le", "label", "goto", "jne", "je"}

getTokenFromWord(word) ==
    IF StartsWith(word, <<"//">>) THEN [type |-> "comment", value |-> word]
    ELSE IF Len(word) = 1 /\ word[1] \in OpWords
         THEN [type |-> word[1], value |-> NoValue]
    ELSE IF StartsWith(word, <<"$">>) THEN [type |-> "call", value |-> Tail(word)]
    ELSE [type |-> "reference", value |-> word]

Quotes == {"\"", "'"}

\* the loop over the words of one line; q is currentQuote ("" when none)
RECURSIVE compileWords(_, _, _, _)
compileWords(words, tokens, currentString, q) ==
    IF words = <<>> THEN tokens
    ELSE LET word == Head(words)
             rest == Tail(words)
         IN  IF q = ""
             THEN IF word # <<>> /\ Head(word) \in Quotes
                  THEN IF EndsWith(word, <<Head(word)>>)
                       THEN compileWords(rest, Append(tokens, getTokenFromWord(word)),
                                         word, "")
                       ELSE compileWords(rest, tokens, word, Head(word))
                  ELSE compileWords(rest, Append(tokens, getTokenFromWord(word)),
                                    currentString, "")
             ELSE LET cur == currentString \o <<" ">> \o word
                  IN  IF EndsWith(word, <<q>>)
                      THEN compileWords(rest, Append(tokens, getTokenFromWord(cur)),
                                        cur, "")
                      ELSE compileWords(rest, tokens, cur, q)

compile(pipeline) ==
    [i \in 1..Len(pipeline) |->
        compileWords(Split(Trim(pipeline[i]), " "), <<>>, <<>>, "")]

-----------------------------------------------------------------------------
(* Pipelines: getCompiler, buildPipeline, registerPipeline, getPipeline *)

\* a compiler instance: the key it is stored under, and the container it was
\* constructed with, which is the container its execute works on
CompilerAt(c, name) == [name |-> name, container |-> c]

NullPipeline ==
    [pipeline |-> <<>>, compiler |-> CompilerAt("none", <<"<null>">>), compiled |-> <<>>]

\* getCompiler that ends at the default compiler of the container it was asked
getCompiler_OwnDefault(R, c, name) ==
    IF name \in R.compilers[c] THEN CompilerAt(c, name)
    ELSE IF Parent[c] # "none" /\ name \in R.compilers[Parent[c]]
         THEN CompilerAt(Parent[c], name)
    ELSE CompilerAt(c, <<"default">>)

RECURSIVE getCompiler(_, _, _)
getCompiler(R, c, name) ==
    IF name \in R.compilers[c] THEN CompilerAt(c, name)
    ELSE IF Parent[c] # "none" THEN getCompiler(R, Parent[c], name)
    ELSE CompilerAt(c, <<"default">>)

CompilerMark == <<"//", " ", "compiler=">>

\* the inherited body: the previous lines but those that begin with "->"
Inherited(prevPipeline) ==
    SelectSeq(prevPipeline, LAMBDA l : ~StartsWith(Trim(l), <<"->">>))

RECURSIVE Expand(_, _)
Expand(srcPipeline, prevPipeline) ==
    IF srcPipeline = <<>> THEN <<>>
    ELSE (IF Trim(Head(srcPipeline)) = <<"$", "super">>
          THEN Inherited(prevPipeline)
          ELSE <<Head(srcPipeline)>>) \o Expand(Tail(srcPipeline), prevPipeline)

\* the compiler a pipeline names in its first line, 'default' when it names none
CompilerOf(pipeline) ==
    IF pipeline # <<>> /\ StartsWith(pipeline[1], CompilerMark)
    THEN SubSeq(pipeline[1], Len(CompilerMark) + 1, Len(pipeline[1]))
    ELSE <<"default">>

buildPipeline(R, c, srcPipeline, prevPipeline) ==
    With(Expand(srcPipeline, prevPipeline), LAMBDA pipeline :
        [pipeline |-> pipeline,
         compiler |-> getCompiler(R, c, CompilerOf(pipeline)),
         compiled |-> compile(pipeline)])

IndexOfTag(items, tag) ==
    IF \E i \in 1..Len(items) : items[i].tag = tag
    THEN CHOOSE i \in 1..Len(items) : items[i].tag = tag
    ELSE 0

FirstMatchTag(items, tag) ==
    IF \E i \in 1..Len(items) : compareWildcards(tag, items[i].tag)
    THEN CHOOSE i \in 1..Len(items) :
            /\ compareWildcards(tag, items[i].tag)
            /\ \A j \in 1..(i - 1) : ~compareWildcards(tag, items[j].tag)
    ELSE 0

\* value: the pipeline returned, NullPipeline for undefined
getPipeline(R, c, tag) ==
    LET i == IndexOfTag(R.pipelines[c], tag)
    IN  IF i # 0 THEN [R |-> R, value |-> R.pipelines[c][i].built]
        ELSE IF tag \in DOMAIN R.cachePipelines[c]
             THEN [R |-> R, value |-> R.cachePipelines[c][tag]]
        ELSE LET j == FirstMatchTag(R.pipelines[c], tag)
                 hit == IF j = 0 THEN NullPipeline ELSE R.pipelines[c][j].built
             IN  [R |-> [R EXCEPT !.cachePipelines[c] = (tag :> hit) @@ @],
                  value |-> hit]

PutTag(items, item) ==
    LET i == IndexOfTag(items, item.tag)
    IN  IF i = 0 THEN Append(items, item) ELSE [items EXCEPT ![i] = item]

\* registerPipeline that stores whatever overwrite says
registerPipeline_Overwrites(R, c, tag, pipeline, overwrite) ==
    With(getPipeline([R EXCEPT !.cachePipelines[c] = EmptyMap], c, tag), LAMBDA p :
        [p.R EXCEPT !.pipelines[c] =
            PutTag(@, [tag |-> tag,
                       built |-> buildPipeline(p.R, c, pipeline,
                                               IF p.value # NullPipeline
                                               THEN p.value.pipeline ELSE <<>>)])])

registerPipeline(R, c, tag, pipeline, overwrite) ==
    IF overwrite \/ IndexOfTag(R.pipelines[c], tag) = 0
    THEN With(getPipeline([R EXCEPT !.cachePipelines[c] = EmptyMap], c, tag), LAMBDA p :
            [p.R EXCEPT !.pipelines[c] =
                PutTag(@, [tag |-> tag,
                           built |-> buildPipeline(p.R, c, pipeline,
                                                   IF p.value # NullPipeline
                                                   THEN p.value.pipeline ELSE <<>>)])])
    ELSE R

\* a configuration is a mapping the callers own; `undefined` is what a tag
\* without one reads as
NoConfiguration == "undefined"

\* this.configurations[tag]
ConfigurationAt(items, tag) ==
    IF IndexOfTag(items, tag) = 0 THEN NoConfiguration
    ELSE items[IndexOfTag(items, tag)].configuration

\* this.configurations[tag] = configuration
PutConfiguration(items, item) ==
    IF IndexOfTag(items, item.tag) = 0 THEN Append(items, item)
    ELSE [items EXCEPT ![IndexOfTag(items, item.tag)] = item]

registerConfiguration(R, c, tag, configuration, overwrite) ==
    IF overwrite \/ ConfigurationAt(R.configurations[c], tag) = NoConfiguration
    THEN [R EXCEPT !.configurations[c] =
             PutConfiguration(@, [tag |-> tag, configuration |-> configuration])]
    ELSE R

-----------------------------------------------------------------------------
(* Construction *)

\* no start invocation is in progress
NotStarting == [c |-> "none", keys |-> <<>>, i |-> 0, pipelineName |-> <<>>]

Blank ==
    [factory |-> [c \in Containers |-> <<>>],
     bestKeys |-> [c \in Containers |-> EmptyMap],
     nextInst |-> 0,
     applyLog |-> <<>>,
     fetchLog |-> <<>>,
     compilers |-> [c \in Containers |-> {}],
     pipelines |-> [c \in Containers |-> <<>>],
     cachePipelines |-> [c \in Containers |-> EmptyMap],
     configurations |-> [c \in Containers |-> <<>>],
     childPipelines |-> [c \in Containers |-> <<>>],
     classes |-> [c \in Containers |-> EmptyMap],
     started |-> <<>>,
     starting |-> NotStarting]

\* new Container(): registerCompiler(DefaultCompiler); use(logger)
constructor(R, c) ==
    use(registerCompiler(R, c, DefaultCompiler, <<>>), c, logger, <<>>, TRUE, FALSE)

Constructed == constructor(constructor(Blank, "root"), "child")

SetReg(R) ==
    /\ factory' = R.factory
    /\ bestKeys' = R.bestKeys
    /\ nextInst' = R.nextInst
    /\ applyLog' = R.applyLog
    /\ fetchLog' = R.fetchLog
    /\ compilers' = R.compilers
    /\ pipelines' = R.pipelines
    /\ cachePipelines' = R.cachePipelines
    /\ configurations' = R.configurations
    /\ childPipelines' = R.childPipelines
    /\ classes' = R.classes
    /\ started' = R.started
    /\ starting' = R.starting

\* the registry is as R
IsReg(R) ==
    /\ factory = R.factory
    /\ bestKeys = R.bestKeys
    /\ nextInst = R.nextInst
    /\ applyLog = R.applyLog
    /\ fetchLog = R.fetchLog
    /\ compilers = R.compilers
    /\ pipelines = R.pipelines
    /\ cachePipelines = R.cachePipelines
    /\ configurations = R.configurations
    /\ childPipelines = R.childPipelines
    /\ classes = R.classes
    /\ started = R.started
    /\ starting = R.starting

InitContainers == IsReg(Constructed)

-----------------------------------------------------------------------------
(* JavaScript values as the pipelines see them *)

Nowhere == <<"-", 0>>

\* k: the kind; n: the number (booleans: 1, 0); at: the identity of an object
\* or the receiver a function is bound to; s: the text of a string, the name
\* of a function
Num(n) == [k |-> "number", n |-> n, at |-> Nowhere, s |-> <<>>]
Bool(b) == [k |-> "boolean", n |-> IF b THEN 1 ELSE 0, at |-> Nowhere, s |-> <<>>]
Undef == [k |-> "undefined", n |-> 0, at |-> Nowhere, s |-> <<>>]
NaN == [k |-> "NaN", n |-> 0, at |-> Nowhere, s |-> <<>>]
Text(s) == [k |-> "string", n |-> 0, at |-> Nowhere, s |-> s]
Ref(at) == [k |-> "object", n |-> 0, at |-> at, s |-> <<>>]
Fn(name, at) == [k |-> "function", n |-> 0, at |-> at, s |-> name]

\* decimal numerals, the lexeme of n at place n + 1
Numerals == <<"0", "1", "2", "3", "4", "5", "6", "7", "8", "9", "10", "11", "12">>

\* /^\d+$/.test(token)
IsNum(token) == Len(token) = 1 /\ \E i \in 1..Len(Numerals) : Numerals[i] = token[1]

\* parseFloat of a token that passed the digit test
parseFloat(token) == (CHOOSE i \in 1..Len(Numerals) : Numerals[i] = token[1]) - 1

\* String(n) of a number the numerals cover
NumberText(n) ==
    IF n >= 0 /\ n < Len(Numerals) THEN <<Numerals[n + 1]>>
    ELSE IF n < 0 /\ -n < Len(Numerals) THEN <<"-", Numerals[1 - n]>>
    ELSE <<"<number>">>

\* !!v
TruthyVal(v) ==
    CASE v.k = "undefined" -> FALSE
      [] v.k = "NaN" -> FALSE
      [] v.k = "number" -> v.n # 0
      [] v.k = "boolean" -> v.n = 1
      [] v.k = "string" -> v.s # <<>>
      [] OTHER -> TRUE

\* String(v) as `+` computes it for an operand that is not a number
ToText(v) ==
    CASE v.k = "string" -> v.s
      [] v.k = "number" -> NumberText(v.n)
      [] v.k = "boolean" -> IF v.n = 1 THEN <<"true">> ELSE <<"false">>
      [] v.k = "undefined" -> <<"undefined">>
      [] v.k = "NaN" -> <<"NaN">>
      [] v.k = "object" -> <<"[object Object]">>
      [] OTHER -> <<"<function>">>

\* Number(v)
ToNumber(v) ==
    CASE v.k = "number" -> v
      [] v.k = "boolean" -> Num(v.n)
      [] v.k = "string" -> IF Trim(v.s) = <<>> THEN Num(0)
                           ELSE IF IsNum(Trim(v.s)) THEN Num(parseFloat(Trim(v.s)))
                           ELSE NaN
      [] OTHER -> NaN

\* a + b
Plus(a, b) ==
    IF a.k \in {"string", "object", "function"} \/ b.k \in {"string", "object", "function"}
    THEN Text(ToText(a) \o ToText(b))
    ELSE IF ToNumber(a).k = "NaN" \/ ToNumber(b).k = "NaN" THEN NaN
    ELSE Num(ToNumber(a).n + ToNumber(b).n)

\* a - b
Minus(a, b) ==
    IF ToNumber(a).k = "NaN" \/ ToNumber(b).k = "NaN" THEN NaN
    ELSE Num(ToNumber(a).n - ToNumber(b).n)

\* a === b
StrictEquals(a, b) == a.k # "NaN" /\ a = b

\* the decimal digits of a numeral the table covers
DigitsOf(n) == IF n < 10 THEN <<n>> ELSE <<n \div 10, n % 10>>

RECURSIVE LexLess(_, _)
LexLess(x, y) ==
    IF y = <<>> THEN FALSE
    ELSE IF x = <<>> THEN TRUE
    ELSE IF Head(x) # Head(y) THEN Head(x) < Head(y)
    ELSE LexLess(Tail(x), Tail(y))

\* a < b: two strings compare as text (here: two numerals, digit by digit),
\* any other pair compares as numbers, and NaN compares false
LessThan(a, b) ==
    IF a.k = "string" /\ b.k = "string"
    THEN /\ IsNum(a.s)
         /\ IsNum(b.s)
         /\ LexLess(DigitsOf(parseFloat(a.s)), DigitsOf(parseFloat(b.s)))
    ELSE /\ ToNumber(a).k = "number"
         /\ ToNumber(b).k = "number"
         /\ ToNumber(a).n < ToNumber(b).n

\* a <= b
LessOrEqual(a, b) ==
    IF a.k = "string" /\ b.k = "string"
    THEN a.s = b.s \/ LessThan(a, b)
    ELSE /\ ToNumber(a).k = "number"
         /\ ToNumber(b).k = "number"
         /\ ToNumber(a).n <= ToNumber(b).n

\* obj[key] of a value that is neither undefined nor null: a primitive has none
\* of the keys pipelines name
Member(H, obj, key) ==
    IF obj.k \in {"object", "function"} /\ obj.at \in DOMAIN H /\ key \in DOMAIN H[obj.at]
    THEN H[obj.at][key]
    ELSE Undef

\* obj[key] = value, in strict code: a primitive takes no property
CanStore(obj) == obj.k \in {"object", "function"}

Store(H, obj, key, value) ==
    IF obj.at \in DOMAIN H
    THEN [H EXCEPT ![obj.at] = (key :> value) @@ @]
    ELSE (obj.at :> (key :> value)) @@ H

\* delete obj[key]
Remove(H, obj, key) ==
    IF obj.k \in {"object", "function"} /\ obj.at \in DOMAIN H
    THEN [H EXCEPT ![obj.at] = [x \in (DOMAIN @) \ {key} |-> @[x]]]
    ELSE H

\* the value a pipeline sees for what get() returned
ToVal(v) ==
    CASE v.k = "undefined" -> Undef
      [] v.k = "class" -> Fn(<<v.cls>>, Nowhere)
      [] OTHER -> Ref(v.id)

-----------------------------------------------------------------------------
(* Container: path resolution and the value operations *)

\* what a call leaves: the registry R, the objects H, the error it threw (""
\* when none), and the value it returned with the type resolvePathWithType
\* gives it
Resolved(R, H, type, value) ==
    [R |-> R, H |-> H, err |-> "", type |-> type, value |-> value]
Done(R, H, value) == Resolved(R, H, "none", value)
Threw(R, H, e) == [R |-> R, H |-> H, err |-> e, type |-> "none", value |-> Undef]

\* the statements after a call: they run on what the call left, unless it threw
Then(r, Rest(_)) == IF r.err # "" THEN r ELSE Rest(r)

\* token.replace(/^"(.+(?="$))"$/, '$1'): the quotes go when the token closes
\* with the quote it opens with and holds something between them
Unquote(token) ==
    IF Len(token) >= 3 /\ token[Len(token)] = Head(token)
    THEN SubSeq(token, 2, Len(token) - 1)
    ELSE token

\* the for loop of resolvePathWithType over tokens[i..], and its return
RECURSIVE walkTokens(_, _, _, _, _)
walkTokens(R, H, currentObject, tokens, i) ==
    IF i > Len(tokens)
    THEN Resolved(R, H, IF currentObject.k = "function" THEN "function" ELSE "reference",
                  currentObject)
    ELSE IF (~TruthyVal(currentObject) \/ ~TruthyVal(Member(H, currentObject, tokens[i])))
            /\ i < Len(tokens)
         THEN Threw(R, H, "PathNotFound")
    ELSE IF currentObject.k = "undefined" THEN Threw(R, H, "TypeError")
    ELSE walkTokens(R, H,
                    IF Member(H, currentObject, tokens[i]).k = "function"
                    THEN Fn(Member(H, currentObject, tokens[i]).s, currentObject.at)
                    ELSE Member(H, currentObject, tokens[i]),
                    tokens, i + 1)

\* step: the path, NoValue when the caller passed undefined
resolvePathWithType(R, H, c, step, context, input, srcObject) ==
    IF step = NoValue THEN Threw(R, H, "TypeError")
    ELSE
    LET tokens == Split(step, ".")
        token == IF Trim(tokens[1]) # <<>> THEN Trim(tokens[1])
                 ELSE IF StartsWith(step, <<".">>) THEN <<"this">> ELSE <<"context">>
    IN  IF IsNum(token) THEN Resolved(R, H, "literal", Num(parseFloat(token)))
        ELSE IF Head(token) \in Quotes THEN Resolved(R, H, "literal", Text(Unquote(token)))
        ELSE IF token = <<"true">> THEN Resolved(R, H, "literal", Bool(TRUE))
        ELSE IF token = <<"false">> THEN Resolved(R, H, "literal", Bool(FALSE))
        ELSE IF token \in {<<"input">>, <<"output">>}
             THEN walkTokens(R, H, input, tokens, 2)
        ELSE IF token = <<"this">> THEN walkTokens(R, H, srcObject, tokens, 2)
        ELSE IF token = <<"context">> THEN walkTokens(R, H, context, tokens, 2)
        ELSE With(get(R, c, token, "undefined"), LAMBDA g :
                 walkTokens(g.R, H,
                            IF TruthyVal(ToVal(g.value)) THEN ToVal(g.value)
                            ELSE Member(H, context, token),
                            tokens, 2))

\* the result keeps its type here; the callers read its value
resolvePath(R, H, c, step, context, input, srcObject) ==
    resolvePathWithType(R, H, c, step, context, input, srcObject)

\* tokens.slice(0, -1).join('.') and tokens[tokens.length - 1]
ParentPath(tokens) == Join(SubSeq(tokens, 1, Len(tokens) - 1), ".")
LastToken(tokens) == tokens[Len(tokens)]

\* currentObject[key] = value
assign(R, H, currentObject, key, value) ==
    IF CanStore(currentObject) THEN Done(R, Store(H, currentObject, key, value), Undef)
    ELSE Threw(R, H, "TypeError")

setValue(R, H, c, path, valuePath, context, input, srcObject) ==
    Then(resolvePath(R, H, c, valuePath, context, input, srcObject), LAMBDA v :
        IF path = NoValue THEN Threw(v.R, H, "TypeError")
        ELSE Then(resolvePath(v.R, H, c, ParentPath(Split(path, ".")), context, input,
                              srcObject), LAMBDA o :
                assign(o.R, H, o.value, LastToken(Split(path, ".")), v.value)))

\* path.split('.'), with 'this' pushed when the path starts with '.'
IncTokens(path) ==
    IF StartsWith(path, <<".">>) THEN Append(Split(path, "."), <<"this">>)
    ELSE Split(path, ".")

incValue(R, H, c, path, valuePath, context, input, srcObject) ==
    Then(resolvePath(R, H, c, valuePath, context, input, srcObject), LAMBDA v :
        IF path = NoValue THEN Threw(v.R, H, "TypeError")
        ELSE Then(resolvePath(v.R, H, c, ParentPath(IncTokens(path)), context, input,
                              srcObject), LAMBDA o :
                IF o.value.k = "undefined" THEN Threw(o.R, H, "TypeError")
                ELSE assign(o.R, H, o.value, LastToken(IncTokens(path)),
                            Plus(Member(H, o.value, LastToken(IncTokens(path))),
                                 v.value))))

decValue(R, H, c, path, valuePath, context, input, srcObject) ==
    Then(resolvePath(R, H, c, valuePath, context, input, srcObject), LAMBDA v :
        IF path = NoValue THEN Threw(v.R, H, "TypeError")
        ELSE Then(resolvePath(v.R, H, c, ParentPath(Split(path, ".")), context, input,
                              srcObject), LAMBDA o :
                IF o.value.k = "undefined" THEN Threw(o.R, H, "TypeError")
                ELSE assign(o.R, H, o.value, LastToken(Split(path, ".")),
                            Minus(Member(H, o.value, LastToken(Split(path, "."))),
                                  v.value))))

\* valueA <op> valueB of eqValue .. leValue
Compares(op, a, b) ==
    CASE op = "eq" -> StrictEquals(a, b)
      [] op = "neq" -> ~StrictEquals(a, b)
      [] op = "gt" -> LessThan(b, a)
      [] op = "ge" -> LessOrEqual(b, a)
      [] op = "lt" -> LessThan(a, b)
      [] op = "le" -> LessOrEqual(a, b)

\* eqValue .. leValue: context.floating = valueA <op> valueB
compareValues(R, H, c, op, pathA, pathB, context, input, srcObject) ==
    Then(resolvePath(R, H, c, pathA, context, input, srcObject), LAMBDA a :
        Then(resolvePath(a.R, H, c, pathB, context, input, srcObject), LAMBDA b :
            Done(b.R, Store(H, context, <<"floating">>,
                            Bool(Compares(op, a.value, b.value))), Undef)))

deleteValue(R, H, c, path, context, input, srcObject) ==
    IF path = NoValue THEN Threw(R, H, "TypeError")
    ELSE Then(resolvePath(R, H, c, ParentPath(Split(path, ".")), context, input,
                          srcObject), LAMBDA o :
            IF o.value.k = "undefined" THEN Threw(o.R, H, "TypeError")
            ELSE Done(o.R, Remove(H, o.value, LastToken(Split(path, "."))), Undef))

\* srcPath || 'floating'
PathOrFloating(srcPath) ==
    IF srcPath \in {NoValue, <<>>} THEN <<"floating">> ELSE srcPath

getValue(R, H, c, srcPath, context, input, srcObject) ==
    Then(resolvePath(R, H, c, ParentPath(Split(PathOrFloating(srcPath), ".")), context,
                     input, srcObject), LAMBDA o :
        IF o.value.k = "undefined" THEN Threw(o.R, H, "TypeError")
        ELSE Done(o.R, H, Member(H, o.value, LastToken(Split(PathOrFloating(srcPath), ".")))))

-----------------------------------------------------------------------------
(* DefaultCompiler: execution *)

\* a promise, as a method may return it: `settles` is the value it resolves to,
\* `rejects` the error it rejects with ("" when it resolves)
Promise(value, e) ==
    [k |-> "promise", n |-> 0, at |-> Nowhere, s |-> <<>>, settles |-> value,
     rejects |-> e]

\* the methods the components of the callers expose: what each returns or throws
callMethod(R, H, method, input, args) ==
    CASE method.s = <<"echo">> -> Done(R, H, input)
      [] method.s = <<"first">> ->
            Done(R, H, IF args = <<>> THEN Undef ELSE args[1].value)
      [] method.s = <<"defer">> -> Done(R, H, Promise(Text(<<"late">>), ""))
      [] method.s = <<"refuse">> -> Done(R, H, Promise(Undef, "MethodError"))
      [] method.s = <<"throw">> -> Threw(R, H, "MethodError")
      [] OTHER -> Done(R, H, Undef)

\* the loop of executeReference that resolves step[i..] as arguments; the value
\* left is the array of them
RECURSIVE resolveArgs(_, _, _, _, _, _, _, _)
resolveArgs(R, H, c, step, i, context, input, srcObject) ==
    IF i > Len(step) THEN Resolved(R, H, "arguments", <<>>)
    ELSE Then(resolvePathWithType(R, H, c, step[i].value, context, input, srcObject),
              LAMBDA a :
                Then(resolveArgs(a.R, H, c, step, i + 1, context, input, srcObject),
                     LAMBDA rest :
                       Resolved(rest.R, H, "arguments",
                                <<[type |-> a.type, value |-> a.value]>> \o rest.value)))

\* currentObject.run || currentObject, a method bound to the object it is of
MethodOf(H, currentObject) ==
    IF ~TruthyVal(Member(H, currentObject, <<"run">>)) THEN currentObject
    ELSE IF Member(H, currentObject, <<"run">>).k = "function"
         THEN Fn(Member(H, currentObject, <<"run">>).s, currentObject.at)
    ELSE Member(H, currentObject, <<"run">>)

executeReference(R, H, c, step, firstToken, context, input, srcObject) ==
    Then(resolvePath(R, H, c, firstToken.value, context, input, srcObject), LAMBDA o :
        Then(resolveArgs(o.R, H, c, step, 2, context, input, srcObject), LAMBDA a :
            IF ~TruthyVal(o.value) THEN Threw(a.R, H, "MethodNotFound")
            ELSE IF MethodOf(H, o.value).k = "function"
                 THEN callMethod(a.R, H, MethodOf(H, o.value), input, a.value)
            ELSE Done(a.R, H, MethodOf(H, o.value))))

\* doGoto that lands one instruction further
doGoto_Further(R, H, label, context) ==
    IF Member(H, context, <<"labels">>).k = "undefined" THEN Threw(R, H, "TypeError")
    ELSE Done(R, Store(H, context, <<"cursor">>,
                       Plus(Member(H, Member(H, context, <<"labels">>), label), Num(1))),
              Undef)

doGoto(R, H, label, context) ==
    IF Member(H, context, <<"labels">>).k = "undefined" THEN Threw(R, H, "TypeError")
    ELSE Done(R, Store(H, context, <<"cursor">>,
                       Member(H, Member(H, context, <<"labels">>), label)), Undef)

\* step[i] ? step[i].value : otherwise
ValueAt(step, i, otherwise) == IF Len(step) >= i THEN step[i].value ELSE otherwise

\* a result that leaves the input as it is
Keep(d, input) == IF d.err # "" THEN d ELSE [d EXCEPT !.value = input]

\* executeAction for every step but a call: value is the input of the next step
executeAction(R, H, c, step, context, input, srcObject, depth) ==
    LET arrow == step # <<>> /\ step[1].value # NoValue /\ StartsWith(step[1].value, <<"->">>)
        firstToken == IF arrow THEN [step[1] EXCEPT !.value = Tail(@)] ELSE step[1]
        type == firstToken.type
        floating == Member(H, context, <<"floating">>)
    IN  IF arrow /\ depth > 0 THEN Done(R, H, input)
        ELSE IF step = <<>> THEN Threw(R, H, "TypeError")
        ELSE IF type \in {"set", "delete", "goto", "jne", "je"} /\ Len(step) < 2
             THEN Threw(R, H, "TypeError")
        ELSE CASE type = "set" ->
                    Keep(setValue(R, H, c, step[2].value, ValueAt(step, 3, NoValue),
                                  context, input, srcObject), input)
               [] type = "delete" ->
                    Keep(deleteValue(R, H, c, step[2].value, context, input, srcObject),
                         input)
               [] type = "get" ->
                    getValue(R, H, c, ValueAt(step, 2, NoValue), context, input, srcObject)
               [] type = "inc" ->
                    Keep(incValue(R, H, c, ValueAt(step, 2, NoValue),
                                  ValueAt(step, 3, <<"1">>), context, input, srcObject),
                         input)
               [] type = "dec" ->
                    Keep(decValue(R, H, c, ValueAt(step, 2, NoValue),
                                  ValueAt(step, 3, <<"1">>), context, input, srcObject),
                         input)
               [] type \in {"eq", "neq", "gt", "ge", "lt", "le"} ->
                    Keep(compareValues(R, H, c, type, ValueAt(step, 2, NoValue),
                                       ValueAt(step, 3, NoValue), context, input,
                                       srcObject), input)
               [] type = "goto" -> Keep(doGoto(R, H, step[2].value, context), input)
               [] type = "jne" ->
                    IF ~TruthyVal(floating)
                    THEN Keep(doGoto(R, H, step[2].value, context), input)
                    ELSE Done(R, H, input)
               [] type = "je" ->
                    IF TruthyVal(floating)
                    THEN Keep(doGoto(R, H, step[2].value, context), input)
                    ELSE Done(R, H, input)
               [] type = "reference" ->
                    executeReference(R, H, c, step, firstToken, context, input, srcObject)
               [] OTHER -> Done(R, H, input)

\* the first line findLabels cannot read: a line without tokens, or a label
\* without a name; 0 when it reads them all
UnreadableLine(compiled) ==
    LET bad == {i \in 1..Len(compiled) :
                   \/ compiled[i] = <<>>
                   \/ compiled[i][1].type = "label" /\ Len(compiled[i]) < 2}
    IN  IF bad = {} THEN 0 ELSE CHOOSE i \in bad : \A j \in bad : i <= j

\* labels[current[1].value] = i, a later line of the same name winning
findLabels(compiled) ==
    LET names == {compiled[i][2].value : i \in {j \in 1..Len(compiled) :
                                                  compiled[j][1].type = "label"}}
    IN  [nm \in names |->
            Num((CHOOSE i \in 1..Len(compiled) :
                    /\ compiled[i][1].type = "label"
                    /\ compiled[i][2].value = nm
                    /\ \A j \in (i + 1)..Len(compiled) :
                          ~(compiled[j][1].type = "label" /\ compiled[j][2].value = nm))
                - 1)]

-----------------------------------------------------------------------------
(* The calls made on the containers *)

APat == <<"a", "*">>
Star == <<"*">>
AB == <<"a", "b">>

o1 == Object(<<"given", 1>>, "Object", APat, FALSE)
o2 == Object(<<"given", 2>>, "Object", Star, FALSE)
\* a component that exposes applySettings
tuned == Object(<<"given", 4>>, "Tuned", <<"tuned">>, TRUE)
K == Class("K", FALSE)
\* a compiler class of the callers, whose instances name themselves after it
CustomCompiler == Class("CustomCompiler", FALSE)

Line(w) == <<w>>

Super == <<" ", "$", "super">>
Arrow(w) == <<"->", w>>
\* a first line that names a compiler
CompilerLine(name) == CompilerMark \o name

\* bounds of the exploration
MaxNew == 2
MaxLog == 3
MaxLines == 3

FitsRegistry(R) ==
    /\ R.nextInst <= MaxNew
    /\ Len(R.applyLog) <= MaxLog
    /\ Len(R.fetchLog) <= MaxLog

Fits(R) ==
    /\ FitsRegistry(R)
    /\ \A c \in Containers : \A i \in 1..Len(R.pipelines[c]) :
          Len(R.pipelines[c][i].built.pipeline) <= MaxLines

NoCalls ==
    [containers |-> {}, values |-> {}, names |-> {}, queries |-> {},
     settings |-> {}, tags |-> {}, bodies |-> {}, tagQueries |-> {}, steps |-> {},
     configurations |-> {}, compilerClasses |-> {}, compilerNames |-> {}]

Register(c, name, Clazz, isSingleton) ==
    LET R == register(RegState, c, name, Clazz, isSingleton)
    IN  /\ Fits(R)
        /\ SetReg(R)
        /\ UNCHANGED <<env, runVars>>

Use(c, item, name, isSingleton, onlyIfNotExists) ==
    LET R == use(RegState, c, item, name, isSingleton, onlyIfNotExists)
    IN  /\ Fits(R)
        /\ SetReg(R)
        /\ UNCHANGED <<env, runVars>>

Get(c, name, settings) ==
    LET g == get(RegState, c, name, settings)
    IN  /\ Fits(g.R)
        /\ SetReg(g.R)
        /\ UNCHANGED <<env, runVars>>

RegisterPipeline(c, tag, pipeline, overwrite) ==
    LET R == registerPipeline(RegState, c, tag, pipeline, overwrite)
    IN  /\ Fits(R)
        /\ SetReg(R)
        /\ UNCHANGED <<env, runVars>>

GetPipeline(c, tag) ==
    /\ SetReg(getPipeline(RegState, c, tag).R)
    /\ UNCHANGED <<env, runVars>>

RegisterConfiguration(c, tag, configuration, overwrite) ==
    /\ SetReg(registerConfiguration(RegState, c, tag, configuration, overwrite))
    /\ UNCHANGED <<env, runVars>>

RegisterCompiler(c, Compiler, name) ==
    /\ SetReg(registerCompiler(RegState, c, Compiler, name))
    /\ UNCHANGED <<env, runVars>>

\* nothing has been run
Idle ==
    /\ stack = <<>>
    /\ status = "idle"
    /\ result = Undef
    /\ thrown = ""
    /\ begun = 0
    /\ parked = <<>>

\* container.resolvePathWithType(step, {}, undefined, undefined): the fetch a
\* path makes when its first token names a component
ResolvePath(c, step) ==
    LET r == resolvePathWithType(RegState, heap, c, step, Ref(<<"context", 0>>),
                                 Undef, Undef)
    IN  /\ Fits(r.R)
        /\ SetReg(r.R)
        /\ UNCHANGED <<env, runVars>>

\* the callers of the registry: components given by value, components given by
\* class, pipelines, and a mix of the three on one container
RegCallers ==
    { [NoCalls EXCEPT !.containers = Containers, !.values = {o1, o2},
                      !.names = {APat, Star}, !.queries = {APat, Star, AB},
                      !.settings = {"undefined", "cfg1"}],
      [NoCalls EXCEPT !.containers = Containers, !.values = {K},
                      !.names = {APat}, !.queries = {APat, AB},
                      !.settings = {"undefined"}],
      [NoCalls EXCEPT !.containers = Containers, !.tags = {<<"p">>, Star},
                      !.bodies = {<<Line("x")>>, <<Line("y")>>},
                      !.tagQueries = {<<"p">>, <<"q">>}],
      [NoCalls EXCEPT !.containers = {"root"}, !.tags = {<<"p">>, Star},
                      !.bodies = {<<Line("x")>>, <<Arrow("y"), Line("z")>>,
                                  <<Super, Line("x")>>},
                      !.tagQueries = {<<"p">>}],
      [NoCalls EXCEPT !.containers = {"root"}, !.values = {o1, K},
                      !.names = {Star}, !.queries = {AB},
                      !.settings = {"undefined"}, !.tags = {Star},
                      !.bodies = {<<Line("x")>>}, !.tagQueries = {<<"q">>}],
      [NoCalls EXCEPT !.containers = Containers, !.values = {tuned},
                      !.names = {<<"tuned">>}, !.queries = {<<"tuned">>},
                      !.settings = {"undefined", "cfg1", "cfg2"},
                      !.steps = {<<"tuned">>, <<"tuned", ".", "x">>, <<"1">>}],
      [NoCalls EXCEPT !.containers = {"root"}, !.values = {o1},
                      !.names = {Star}, !.queries = {AB},
                      !.settings = {"undefined"}, !.tags = {<<"p">>},
                      !.bodies = {<<Line("x")>>, <<Line("y")>>},
                      !.tagQueries = {<<"q">>},
                      !.configurations = {"cfgA", "cfgB"}],
      [NoCalls EXCEPT !.containers = Containers, !.values = {CustomCompiler},
                      !.tags = {<<"p">>},
                      !.bodies = {<<CompilerLine(<<"CustomCompiler">>), Line("x")>>,
                                  <<CompilerLine(<<"Other">>), Line("x")>>,
                                  <<Line("x")>>},
                      !.compilerClasses = {DefaultCompiler, CustomCompiler},
                      !.compilerNames = {<<>>, <<"Mine">>}] }

InitReg ==
    /\ InitContainers
    /\ env \in RegCallers
    /\ heap = EmptyMap
    /\ Idle

NextReg ==
    \/ \E c \in env.containers, name \in env.names, v \in env.values, s \in BOOLEAN :
          Register(c, name, v, s)
    \/ \E c \in env.containers, name \in env.names \cup {<<>>}, v \in env.values,
          s, o \in BOOLEAN :
          Use(c, v, name, s, o)
    \/ \E c \in env.containers, q \in env.queries, s \in env.settings : Get(c, q, s)
    \/ \E c \in env.containers, t \in env.tags, b \in env.bodies, o \in BOOLEAN :
          RegisterPipeline(c, t, b, o)
    \/ \E c \in env.containers, t \in env.tagQueries : GetPipeline(c, t)
    \/ \E c \in env.containers, step \in env.steps : ResolvePath(c, step)
    \/ \E c \in env.containers, t \in env.tags, g \in env.configurations,
          o \in BOOLEAN :
          RegisterConfiguration(c, t, g, o)
    \/ \E c \in env.containers, C \in env.compilerClasses, name \in env.compilerNames :
          RegisterCompiler(c, C, name)

SpecReg == InitReg /\ [][NextReg]_vars

-----------------------------------------------------------------------------
(* Running a pipeline: runPipeline, execute and its loop, step by step *)

\* runPipeline rejects a depth above this one
DepthLimit == 10

\* bounds of the exploration
MaxRuns == 12
MaxNum == 7
MaxText == 4

NoFrame == [c |-> "none", compiled |-> <<>>, context |-> Nowhere, input |-> Undef,
            srcObject |-> Undef, depth |-> 0, pc |-> "none", last |-> <<>>,
            awaited |-> Undef]

Entered(R, H, frame) == [R |-> R, H |-> H, err |-> "", frame |-> frame]
Rejected(R, H, e) == [R |-> R, H |-> H, err |-> e, frame |-> NoFrame]

\* execute that keeps one context for all its invocations
execute_SharedContext(R, H, n, c, compiled, srcInput, srcObject, depth) ==
    IF UnreadableLine(compiled) # 0 THEN Rejected(R, H, "TypeError")
    ELSE Entered(R,
                 (<<"context", 0>> :> ((<<"cursor">> :> Num(0))
                                       @@ (<<"labels">> :> Ref(<<"labels", 0>>))))
                    @@ (<<"labels", 0>> :> findLabels(compiled)) @@ H,
                 [c |-> c, compiled |-> compiled, context |-> <<"context", 0>>,
                  input |-> srcInput, srcObject |-> srcObject, depth |-> depth,
                  pc |-> "step", last |-> <<>>, awaited |-> Undef])

\* execute up to its loop: the context, the labels; n numbers the invocation
execute(R, H, n, c, compiled, srcInput, srcObject, depth) ==
    IF UnreadableLine(compiled) # 0 THEN Rejected(R, H, "TypeError")
    ELSE Entered(R,
                 (<<"context", n>> :> ((<<"cursor">> :> Num(0))
                                       @@ (<<"labels">> :> Ref(<<"labels", n>>))))
                    @@ (<<"labels", n>> :> findLabels(compiled)) @@ H,
                 [c |-> c, compiled |-> compiled, context |-> <<"context", n>>,
                  input |-> srcInput, srcObject |-> srcObject, depth |-> depth,
                  pc |-> "step", last |-> <<>>, awaited |-> Undef])

\* what runPipeline is given: a tag, a built pipeline, or an array of lines
ByTag(tag) == [k |-> "tag", tag |-> tag, lines |-> <<>>, built |-> NullPipeline]
Built(built) == [k |-> "built", tag |-> <<>>, lines |-> <<>>, built |-> built]
ByLines(lines) == [k |-> "lines", tag |-> <<>>, lines |-> lines, built |-> NullPipeline]

\* JSON.stringify of an array of lines
JsonTag(lines) == <<"[\"">> \o Join(lines, "\",\"") \o <<"\"]">>

\* runPipeline past its depth check: the pipeline is looked up and executed
runKnown(R, H, n, c, srcPipeline, input, srcObject, depth) ==
    IF srcPipeline.k = "tag"
    THEN With(getPipeline(R, c, srcPipeline.tag), LAMBDA p :
            IF p.value = NullPipeline THEN Rejected(p.R, H, "PipelineNotFound")
            ELSE execute(p.R, H, n, p.value.compiler.container, p.value.compiled,
                         input, srcObject, depth))
    ELSE IF srcPipeline.k = "lines"
         THEN With(getPipeline(registerPipeline(R, c, JsonTag(srcPipeline.lines),
                                                srcPipeline.lines, FALSE),
                               c, JsonTag(srcPipeline.lines)), LAMBDA p :
                 execute(p.R, H, n, p.value.compiler.container, p.value.compiled,
                         input, srcObject, depth))
    ELSE execute(R, H, n, srcPipeline.built.compiler.container,
                 srcPipeline.built.compiled, input, srcObject, depth)

\* runPipeline that rejects one level early
runPipeline_OneLess(R, H, n, c, srcPipeline, input, srcObject, depth) ==
    IF depth >= DepthLimit THEN Rejected(R, H, "DepthExceeded")
    ELSE runKnown(R, H, n, c, srcPipeline, input, srcObject, depth)

runPipeline(R, H, n, c, srcPipeline, input, srcObject, depth) ==
    IF depth > DepthLimit THEN Rejected(R, H, "DepthExceeded")
    ELSE runKnown(R, H, n, c, srcPipeline, input, srcObject, depth)

Top == stack[Len(stack)]

Cursor(H, frame) == Member(H, Ref(frame.context), <<"cursor">>)

\* context.cursor < compiled.length
InLoop(H, frame) == LessThan(Cursor(H, frame), Num(Len(frame.compiled)))

\* compiled[context.cursor]: no step (<<>>) unless the cursor is an index
StepAt(H, frame) ==
    LET cursor == Cursor(H, frame)
        index == IF cursor.k = "number" THEN cursor.n
                 ELSE IF cursor.k = "string" /\ IsNum(cursor.s) THEN parseFloat(cursor.s)
                 ELSE -1
    IN  IF index >= 0 /\ index < Len(frame.compiled) THEN frame.compiled[index + 1]
        ELSE <<>>

Arrowed(step) ==
    step # <<>> /\ step[1].value # NoValue /\ StartsWith(step[1].value, <<"->">>)

\* the steps executeAction hands to executeCall
IsCall(step, depth) ==
    /\ step # <<>>
    /\ step[1].type = "call"
    /\ ~(Arrowed(step) /\ depth > 0)

\* the numbers and strings the exploration follows
FitsObjects(H) ==
    \A at \in DOMAIN H : \A key \in DOMAIN H[at] :
        /\ H[at][key].k = "number" => (H[at][key].n <= MaxNum /\ -H[at][key].n <= MaxNum)
        /\ H[at][key].k = "string" => Len(H[at][key].s) <= MaxText

\* Throw that abandons the innermost execute only: its caller goes on
Throw_OnlyInnermost(R, H, e) ==
    /\ SetReg(R)
    /\ heap' = H
    /\ IF Len(stack) > 1
       THEN /\ stack' = [SubSeq(stack, 1, Len(stack) - 1) EXCEPT ![Len(stack) - 1] =
                            [@ EXCEPT !.pc = "advance"]]
            /\ UNCHANGED <<status, thrown>>
       ELSE /\ stack' = <<>>
            /\ status' = "thrown"
            /\ thrown' = e
    /\ UNCHANGED <<result, begun, env, parked>>

\* the run rejects: every execute in progress is abandoned
Throw(R, H, e) ==
    /\ SetReg(R)
    /\ heap' = H
    /\ stack' = <<>>
    /\ status' = "thrown"
    /\ thrown' = e
    /\ UNCHANGED <<result, begun, env, parked>>

\* container.runPipeline(srcPipeline, input, srcObject, depth), called from outside
RunPipeline(c, srcPipeline, input, srcObject, depth) ==
    /\ status = "idle"
    /\ With(runPipeline(RegState, heap, begun, c, srcPipeline, input, srcObject, depth),
            LAMBDA r :
              /\ FitsRegistry(r.R)
              /\ IF r.err # "" THEN Throw(r.R, r.H, r.err)
                 ELSE /\ SetReg(r.R)
                      /\ heap' = r.H
                      /\ stack' = <<r.frame>>
                      /\ status' = "running"
                      /\ begun' = begun + 1
                      /\ UNCHANGED <<result, thrown, env, parked>>)

\* one turn of the loop of execute, up to the return of executeAction
ExecuteAction ==
    /\ status = "running"
    /\ Top.pc = "step"
    /\ InLoop(heap, Top)
    /\ ~IsCall(StepAt(heap, Top), Top.depth)
    /\ With(executeAction(RegState, heap, Top.c, StepAt(heap, Top), Ref(Top.context),
                          Top.input, Top.srcObject, Top.depth),
            LAMBDA d :
              /\ FitsRegistry(d.R)
              /\ FitsObjects(d.H)
              /\ IF d.err # "" THEN Throw(d.R, d.H, d.err)
                 ELSE /\ SetReg(d.R)
                      /\ heap' = d.H
                      /\ stack' = [stack EXCEPT ![Len(stack)] =
                                      IF d.value.k = "promise"
                                      THEN [@ EXCEPT !.awaited = d.value,
                                                     !.pc = "pending",
                                                     !.last = StepAt(heap, Top)]
                                      ELSE [@ EXCEPT !.input = d.value,
                                                     !.pc = "advance",
                                                     !.last = StepAt(heap, Top)]]
                      /\ UNCHANGED <<status, result, thrown, begun, env, parked>>)

\* the promise a step returned settles: `input = await ...` resumes, or throws
Settle ==
    /\ status = "running"
    /\ Top.pc = "pending"
    /\ IF Top.awaited.rejects # "" THEN Throw(RegState, heap, Top.awaited.rejects)
       ELSE /\ stack' = [stack EXCEPT ![Len(stack)] =
                            [@ EXCEPT !.input = Top.awaited.settles, !.awaited = Undef,
                                      !.pc = "advance"]]
            /\ UNCHANGED <<regVars, heap, status, result, thrown, begun, parked>>

\* firstToken.value of a call step, the "->" of a top-level step sliced off
CallName(step) == IF Arrowed(step) THEN Tail(step[1].value) ELSE step[1].value

\* executeCall: the pipeline is looked up, then run one level deeper
executeCall(R, H, n, c, firstTokenValue, input, srcObject, depth) ==
    With(getPipeline(R, c, firstTokenValue), LAMBDA p :
        IF p.value = NullPipeline THEN Rejected(p.R, H, "PipelineNotFound")
        ELSE runPipeline(p.R, H, n, c, Built(p.value), input, srcObject, depth + 1))

\* a call step: executeAction hands it to executeCall and awaits the callee
ExecuteCall ==
    /\ status = "running"
    /\ Top.pc = "step"
    /\ InLoop(heap, Top)
    /\ IsCall(StepAt(heap, Top), Top.depth)
    /\ begun < MaxRuns
    /\ With(executeCall(RegState, heap, begun, Top.c, CallName(StepAt(heap, Top)),
                        Top.input, Top.srcObject, Top.depth),
            LAMBDA r :
              IF r.err # "" THEN Throw(r.R, r.H, r.err)
              ELSE /\ SetReg(r.R)
                   /\ heap' = r.H
                   /\ stack' = Append([stack EXCEPT ![Len(stack)] =
                                          [@ EXCEPT !.pc = "await",
                                                    !.last = StepAt(heap, Top)]],
                                      r.frame)
                   /\ begun' = begun + 1
                   /\ UNCHANGED <<status, result, thrown, env, parked>>)

\* context.cursor += 1
Advance ==
    /\ status = "running"
    /\ Top.pc = "advance"
    /\ heap' = Store(heap, Ref(Top.context), <<"cursor">>,
                     Plus(Cursor(heap, Top), Num(1)))
    /\ FitsObjects(heap')
    /\ stack' = [stack EXCEPT ![Len(stack)] = [@ EXCEPT !.pc = "step"]]
    /\ UNCHANGED <<regVars, status, result, thrown, begun, parked>>

\* Return that lets the caller go on with the input it had
Return_KeepsInput ==
    /\ status = "running"
    /\ Top.pc = "step"
    /\ ~InLoop(heap, Top)
    /\ IF Len(stack) = 1
       THEN /\ stack' = <<>>
            /\ status' = "done"
            /\ result' = Top.input
       ELSE /\ stack' = [SubSeq(stack, 1, Len(stack) - 1) EXCEPT ![Len(stack) - 1] =
                            [@ EXCEPT !.pc = "advance"]]
            /\ UNCHANGED <<status, result>>
    /\ UNCHANGED <<regVars, heap, thrown, begun, parked>>

\* the loop of execute ends: `return input`, to the caller's await or to the
\* outside
Return ==
    /\ status = "running"
    /\ Top.pc = "step"
    /\ ~InLoop(heap, Top)
    /\ IF Len(stack) = 1
       THEN /\ stack' = <<>>
            /\ status' = "done"
            /\ result' = Top.input
       ELSE /\ stack' = [SubSeq(stack, 1, Len(stack) - 1) EXCEPT ![Len(stack) - 1] =
                            [@ EXCEPT !.input = Top.input, !.pc = "advance"]]
            /\ UNCHANGED <<status, result>>
    /\ UNCHANGED <<regVars, heap, thrown, begun, parked>>

-----------------------------------------------------------------------------
(* The pipelines that are run *)

\* a line from its words
Words(ws) == Join(ws, " ")

InputCount == <<"input", ".", "count">>
InputN == <<"input", ".", "n">>

\* bounds of the exploration
MaxN == 3
MaxProg == 3

\* the counter loop that stops at N
CounterLoop(N) ==
    << Words(<< <<"set">>, InputCount, <<"0">> >>),
       Words(<< <<"label">>, <<"loop">> >>),
       Words(<< <<"inc">>, InputCount >>),
       Words(<< <<"lt">>, InputCount, <<Numerals[N + 1]>> >>),
       Words(<< <<"je">>, <<"loop">> >>),
       Words(<< <<"get">>, <<"input">> >>) >>

\* the pipeline whose only step calls itself
SelfCall == << <<"$", "self">> >>

\* a parent and the child it calls, each with a step for the top level only
ParentLines == << <<"$", "child">>, Words(<< <<"->", "inc">>, InputN >>),
                  Words(<< <<"inc">>, InputN >>) >>
ChildLines == << Words(<< <<"->", "stage">>, InputN >>),
                 Words(<< <<"inc">>, InputN >>) >>

\* the lines the generated programs are made of
SomeLines ==
    { Words(<< <<"label">>, <<"a">> >>),
      Words(<< <<"goto">>, <<"a">> >>),
      Words(<< <<"goto">>, <<"b">> >>),
      Words(<< <<"je">>, <<"a">> >>),
      Words(<< <<"jne">>, <<"b">> >>),
      Words(<< <<"inc">>, InputN >>),
      Words(<< <<"lt">>, InputN, <<"2">> >>),
      Words(<< <<"stage">> >>) }

SomePrograms == UNION {[1..n -> SomeLines] : n \in 1..MaxProg}

\* a caller with an instruction after its call
InputDone == <<"input", ".", "done">>
OuterLines == << <<"$", "child">>, Words(<< <<"set">>, InputDone, <<"1">> >>) >>

\* the pipeline that calls itself and has an instruction after the call
AgainLines == << <<"$", "again">>, Words(<< <<"set">>, InputDone, <<"1">> >>) >>

\* the lines of the callees: methods that return, return a promise or throw,
\* a call of a pipeline nobody registered, a path that leads nowhere
CalleeLines ==
    { Words(<< <<"later">> >>),
      Words(<< <<"refuser">> >>),
      Words(<< <<"thrower">> >>),
      Words(<< <<"stage">> >>),
      Words(<< <<"inc">>, InputN >>),
      <<"$", "missing">>,
      Words(<< <<"set">>, <<"input", ".", "a", ".", "b", ".", "c">>, <<"1">> >>) }

MaxCallee == 2

\* the lines of the programs that jump: a label, the three jumps to it, a
\* comparison that holds and one that does not
JumpLines ==
    { Words(<< <<"label">>, <<"b">> >>),
      Words(<< <<"goto">>, <<"b">> >>),
      Words(<< <<"je">>, <<"b">> >>),
      Words(<< <<"jne">>, <<"b">> >>),
      Words(<< <<"eq">>, <<"1">>, <<"1">> >>),
      Words(<< <<"neq">>, <<"1">>, <<"1">> >>),
      Words(<< <<"set">>, InputDone, <<"1">> >>) }

MaxJump == 3

JumpPrograms == UNION {[1..n -> JumpLines] : n \in 1..MaxJump}

\* programs with a line that is empty, or only spaces
EmptyLine == <<>>
SpacesLine == <<" ", " ">>

EmptyPrograms ==
    { <<EmptyLine>>,
      <<SpacesLine>>,
      <<Words(<< <<"set">>, InputDone, <<"1">> >>), EmptyLine>>,
      <<EmptyLine, Words(<< <<"set">>, InputDone, <<"1">> >>)>>,
      <<Words(<< <<"stage">> >>), SpacesLine, Words(<< <<"stage">> >>)>> }

\* programs whose last line is a reference: to a literal, to a number or an
\* object of the input, to a component, to nothing
ReferencePrograms ==
    { <<Line("false")>>,
      <<Line("true")>>,
      <<Line("0")>>,
      <<Line("2")>>,
      <<Line("input")>>,
      <<Line("missing")>>,
      <<Words(<< <<"stage">>, <<"1">> >>)>>,
      <<Words(<< <<"set">>, InputN, <<"0">> >>), InputN>>,
      <<Words(<< <<"set">>, InputN, <<"1">> >>), InputN>>,
      <<InputN>> }

\* programs that end in a get: of a member, of a root, of a component, of
\* the result of the last comparison
GetPrograms ==
    { <<Words(<< <<"eq">>, <<"1">>, <<"1">> >>), Line("get")>>,
      <<Line("get")>>,
      <<Words(<< <<"set">>, InputN, <<"1">> >>), Words(<< <<"get">>, InputN >>)>>,
      <<Words(<< <<"get">>, InputN >>)>>,
      <<Words(<< <<"get">>, <<"input">> >>)>>,
      <<Words(<< <<"get">>, <<"output">> >>)>>,
      <<Words(<< <<"get">>, <<"this">> >>)>>,
      <<Words(<< <<"get">>, <<"context">> >>)>>,
      <<Words(<< <<"get">>, <<"context", ".", "cursor">> >>)>>,
      <<Words(<< <<"get">>, <<"stage">> >>)>> }

\* programs that set a location, add to it, take the same away or delete it,
\* and get it; the paths that begin with '.' are those of srcObject
SetterPaths == {InputN, <<".", "a", ".", "n">>, <<".", "n">>}
SomeAmounts == {1, 2}

\* the line that gives srcObject the member the path walks through
Prepared(path) ==
    IF path = <<".", "a", ".", "n">>
    THEN <<Words(<< <<"set">>, <<"this", ".", "a">>, <<"input">> >>)>>
    ELSE <<>>

SetOf(path, a) == Words(<< <<"set">>, path, <<Numerals[a + 1]>> >>)
IncOf(path, b) == Words(<< <<"inc">>, path, <<Numerals[b + 1]>> >>)
DecOf(path, b) == Words(<< <<"dec">>, path, <<Numerals[b + 1]>> >>)
GetOf(path) == Words(<< <<"get">>, path >>)

AddProgram(path, a, b) ==
    Prepared(path) \o <<SetOf(path, a), IncOf(path, b), GetOf(path)>>
AddBackProgram(path, a, b) ==
    Prepared(path) \o <<SetOf(path, a), IncOf(path, b), DecOf(path, b), GetOf(path)>>
TakeProgram(path, a, b) ==
    Prepared(path) \o <<SetOf(path, a), DecOf(path, b), GetOf(path)>>
DeleteProgram(path, a) ==
    Prepared(path) \o <<SetOf(path, a), Words(<< <<"delete">>, path >>), GetOf(path)>>

SetterPrograms ==
    UNION {{AddProgram(path, a, b), AddBackProgram(path, a, b),
            TakeProgram(path, a, b), DeleteProgram(path, a)} :
              path \in SetterPaths, a \in SomeAmounts, b \in SomeAmounts}

\* programs that compare the number 1 with a number or a string literal
CompareOps == {"eq", "neq", "gt", "ge", "lt", "le"}
Quoted(w) == <<"\"", w, "\"">>

ComparePrograms ==
    {<<Words(<< <<"set">>, InputN, <<"1">> >>), Words(<< <<op>>, InputN, other >>)>> :
        op \in CompareOps, other \in {<<"1">>, <<"2">>, Quoted("1"), Quoted("2")}}

\* one-line programs whose line is for the top level only: an operation word, a
\* call and a reference behind "->"
ArrowLines ==
    { Words(<< <<"->", "set">>, InputDone, <<"1">> >>),
      Words(<< <<"->", "inc">>, InputN >>),
      Words(<< <<"->", "get">>, <<"input">> >>),
      <<"->", "$", "child">>,
      Words(<< <<"->", "stage">> >>),
      Words(<< <<"->", "input">> >>) }

CalleePrograms == UNION {[1..n -> CalleeLines] : n \in 1..MaxCallee}

\* the objects the callers hand over: the input {}, the source object, and a
\* component with a run method
TheInput == Ref(<<"input", 0>>)
TheSource == Ref(<<"this", 0>>)
stage == Object(<<"given", 3>>, "Stage", <<"stage">>, FALSE)
\* a component whose run returns a promise, one whose promise rejects, and one
\* whose run throws
later == Object(<<"given", 5>>, "Later", <<"later">>, FALSE)
refuser == Object(<<"given", 6>>, "Refuser", <<"refuser">>, FALSE)
thrower == Object(<<"given", 7>>, "Thrower", <<"thrower">>, FALSE)

GivenObjects ==
    (TheInput.at :> EmptyMap) @@ (TheSource.at :> EmptyMap)
       @@ (stage.id :> (<<"run">> :> Fn(<<"echo">>, Nowhere)))
       @@ (later.id :> (<<"run">> :> Fn(<<"defer">>, Nowhere)))
       @@ (refuser.id :> (<<"run">> :> Fn(<<"refuse">>, Nowhere)))
       @@ (thrower.id :> (<<"run">> :> Fn(<<"throw">>, Nowhere)))

Run(tagged, srcPipeline, depth) ==
    [c |-> "root", components |-> <<stage, later, refuser, thrower>>,
     pipelines |-> tagged,
     run |-> srcPipeline, depth |-> depth]

Tagged(tag, lines) == [tag |-> tag, lines |-> lines]

RunCallers ==
    {Run(<<Tagged(<<"count">>, CounterLoop(N))>>, ByTag(<<"count">>), 0) : N \in 1..MaxN}
    \cup {Run(<<Tagged(<<"self">>, SelfCall)>>, ByTag(<<"self">>), d) :
             d \in 0..(DepthLimit + 2)}
    \cup {Run(<<Tagged(<<"child">>, ChildLines), Tagged(<<"main">>, ParentLines)>>,
              ByTag(t), 0) : t \in {<<"main">>, <<"child">>, <<"nothing">>}}
    \cup {Run(<<Tagged(<<"p">>, p)>>, ByTag(<<"p">>), 0) : p \in SomePrograms}
    \cup {Run(<<>>, ByLines(p), 0) : p \in {CounterLoop(1), SelfCall}}
    \cup {Run(<<Tagged(<<"child">>, p), Tagged(<<"main">>, OuterLines)>>, ByTag(t), 0) :
             p \in CalleePrograms, t \in {<<"main">>, <<"child">>}}
    \cup {Run(<<Tagged(<<"again">>, AgainLines)>>, ByTag(<<"again">>), 0)}
    \cup {Run(<<Tagged(<<"child">>, ChildLines), Tagged(<<"main">>, <<l>>)>>,
              ByTag(<<"main">>), 0) : l \in ArrowLines}
    \cup {Run(<<Tagged(<<"j">>, p)>>, ByTag(<<"j">>), 0) : p \in JumpPrograms}
    \cup {Run(<<Tagged(<<"e">>, p)>>, ByTag(<<"e">>), 0) : p \in EmptyPrograms}
    \cup {Run(<<Tagged(<<"r">>, p)>>, ByTag(<<"r">>), 0) : p \in ReferencePrograms}
    \cup {Run(<<Tagged(<<"g">>, p)>>, ByTag(<<"g">>), 0) : p \in GetPrograms}
    \cup {Run(<<Tagged(<<"s">>, p)>>, ByTag(<<"s">>), 0) : p \in SetterPrograms}
    \cup {Run(<<Tagged(<<"c">>, p)>>, ByTag(<<"c">>), 0) : p \in ComparePrograms}

\* container.use(component) for each, then registerPipeline for each
RECURSIVE Load(_, _, _, _)
Load(R, c, components, tagged) ==
    IF components # <<>>
    THEN Load(use(R, c, Head(components), <<>>, TRUE, FALSE), c, Tail(components), tagged)
    ELSE IF tagged # <<>>
    THEN Load(registerPipeline(R, c, Head(tagged).tag, Head(tagged).lines, TRUE),
              c, <<>>, Tail(tagged))
    ELSE R

InitRun ==
    /\ env \in RunCallers
    /\ IsReg(Load(Constructed, env.c, env.components, env.pipelines))
    /\ heap = GivenObjects
    /\ Idle

NextRun ==
    \/ RunPipeline(env.c, env.run, TheInput, TheSource, env.depth)
    \/ ExecuteAction
    \/ Settle
    \/ ExecuteCall
    \/ Advance
    \/ Return

SpecRun == InitRun /\ [][NextRun]_vars

-----------------------------------------------------------------------------
(* Two invocations in progress: a second runPipeline called at an await *)

\* `input = await this.executeAction(...)`: execute waits here, also for a
\* step that returned no promise, and other callers run meanwhile
AtAwait(frames) == frames # <<>> /\ frames[Len(frames)].pc \in {"advance", "pending"}

\* how many execute invocations the two runs may begin
MaxTwo == 4

\* container.runPipeline(srcPipeline, input, srcObject) called from outside
\* while a run waits: the run is left where it is and the new one begins
RunOther(c, srcPipeline, input, srcObject) ==
    /\ status = "running"
    /\ parked = <<>>
    /\ AtAwait(stack)
    /\ begun < MaxTwo
    /\ With(runPipeline(RegState, heap, begun, c, srcPipeline, input, srcObject, 0),
            LAMBDA r :
              /\ r.err = ""
              /\ SetReg(r.R)
              /\ heap' = r.H
              /\ parked' = stack
              /\ stack' = <<r.frame>>
              /\ begun' = begun + 1
              /\ UNCHANGED <<status, result, thrown, env>>)

\* the run in progress waits at an await and the one that waited goes on
Switch ==
    /\ status = "running"
    /\ parked # <<>>
    /\ AtAwait(stack)
    /\ stack' = parked
    /\ parked' = stack
    /\ UNCHANGED <<regVars, heap, status, result, thrown, begun>>

\* a run has ended, resolved or rejected, and the one that waited goes on
Resume ==
    /\ status \in {"done", "thrown"}
    /\ parked # <<>>
    /\ stack' = parked
    /\ parked' = <<>>
    /\ status' = "running"
    /\ result' = Undef
    /\ thrown' = ""
    /\ UNCHANGED <<regVars, heap, begun>>

\* the pipelines of the two runs: a caller of `child` with a comparison before
\* the call, callees and second runs that compare, jump and declare labels
TwoMain ==
    << Words(<< <<"neq">>, <<"1">>, <<"1">> >>), <<"$", "child">>,
       Words(<< <<"later">> >>), Line("get") >>

TwoCallees ==
    { <<Words(<< <<"eq">>, <<"1">>, <<"1">> >>), Words(<< <<"label">>, <<"b">> >>)>>,
      <<Words(<< <<"label">>, <<"b">> >>), Words(<< <<"eq">>, <<"1">>, <<"1">> >>),
        Words(<< <<"jne">>, <<"b">> >>)>>,
      <<Words(<< <<"goto">>, <<"b">> >>), Words(<< <<"later">> >>),
        Words(<< <<"label">>, <<"b">> >>)>> }

TwoOthers ==
    { <<Words(<< <<"eq">>, <<"1">>, <<"1">> >>), Words(<< <<"label">>, <<"z">> >>),
        Line("get")>>,
      <<Words(<< <<"goto">>, <<"z">> >>), Words(<< <<"set">>, InputDone, <<"1">> >>),
        Words(<< <<"label">>, <<"z">> >>)>>,
      <<<<"$", "child">>, Words(<< <<"eq">>, <<"1">>, <<"1">> >>)>> }

TwoCallers ==
    {[Run(<<Tagged(<<"child">>, callee), Tagged(<<"main">>, TwoMain),
            Tagged(<<"other">>, second)>>, ByTag(<<"main">>), 0)
        EXCEPT !.depth = 0] : callee \in TwoCallees, second \in TwoOthers}

InitTwo ==
    /\ env \in TwoCallers
    /\ IsReg(Load(Constructed, env.c, env.components, env.pipelines))
    /\ heap = GivenObjects
    /\ Idle

NextTwo ==
    \/ RunPipeline(env.c, env.run, TheInput, TheSource, env.depth)
    \/ ExecuteAction
    \/ Settle
    \/ ExecuteCall
    \/ Advance
    \/ Return
    \/ RunOther(env.c, ByTag(<<"other">>), TheInput, TheSource)
    \/ Switch
    \/ Resume

SpecTwo == InitTwo /\ [][NextTwo]_vars

-----------------------------------------------------------------------------
(* Container.loadPipelinesFromString *)

\* str.split(/\n|\r|\r\n/): a line ends at every "\n" and at every "\r"
RECURSIVE SplitLines(_)
SplitLines(str) ==
    IF str = <<>> THEN << <<>> >>
    ELSE IF Head(str) \in {"\n", "\r"} THEN << <<>> >> \o SplitLines(Tail(str))
    ELSE With(SplitLines(Tail(str)), LAMBDA r : << <<Head(str)>> \o r[1] >> \o Tail(r))

\* toLowerCase of the words the callers write with capitals
LowerCase(word) ==
    CASE word = "Default" -> "default"
      [] word = "PIPELINES" -> "pipelines"
      [] OTHER -> word

toLowerCase(str) == [i \in 1..Len(str) |-> LowerCase(str[i])]

\* the '# ' and '## ' a heading line starts with
SectionMark == <<"#", " ">>
PipelineMark == <<"##", " ">>

\* currentTitle && !['default', 'pipelines'].includes(currentTitle.toLowerCase())
ForChilds(currentTitle) ==
    /\ currentTitle # <<>>
    /\ toLowerCase(currentTitle) \notin {<<"default">>, <<"pipelines">>}

\* this.childPipelines[childName].push({ tag, pipeline, overwrite })
registerPipelineForChilds(R, c, childName, tag, pipeline, overwrite) ==
    LET entry == [tag |-> tag, pipeline |-> pipeline, overwrite |-> overwrite]
        known == {i \in 1..Len(R.childPipelines[c]) :
                     R.childPipelines[c][i].childName = childName}
    IN  IF known = {}
        THEN [R EXCEPT !.childPipelines[c] =
                 Append(@, [childName |-> childName, entries |-> <<entry>>])]
        ELSE [R EXCEPT !.childPipelines[c][CHOOSE i \in known : TRUE].entries =
                 Append(@, entry)]

\* if (currentName) { ... registerPipelineForChilds or registerPipeline ... }
flush(R, c, currentTitle, currentName, currentPipeline) ==
    IF currentName = <<>> THEN R
    ELSE IF ForChilds(currentTitle)
         THEN registerPipelineForChilds(R, c, currentTitle, currentName,
                                        currentPipeline, TRUE)
    ELSE registerPipeline(R, c, currentName, currentPipeline, TRUE)

\* loadLines that forgets the pipeline a section heading closes
RECURSIVE loadLines_SectionDrops(_, _, _, _, _, _, _)
loadLines_SectionDrops(R, c, lines, i, currentName, currentPipeline, currentTitle) ==
    IF i > Len(lines) THEN flush(R, c, currentTitle, currentName, currentPipeline)
    ELSE IF lines[i] = <<>>
         THEN loadLines_SectionDrops(R, c, lines, i + 1, currentName, currentPipeline,
                                     currentTitle)
    ELSE IF StartsWith(lines[i], SectionMark)
         THEN loadLines_SectionDrops(R, c, lines, i + 1, <<>>, <<>>,
                                     Trim(Tail(lines[i])))
    ELSE IF StartsWith(lines[i], PipelineMark)
         THEN loadLines_SectionDrops(flush(R, c, currentTitle, currentName,
                                           currentPipeline),
                                     c, lines, i + 1, Trim(Tail(lines[i])), <<>>,
                                     currentTitle)
    ELSE IF currentName # <<>>
         THEN loadLines_SectionDrops(R, c, lines, i + 1, currentName,
                                     Append(currentPipeline, lines[i]), currentTitle)
    ELSE loadLines_SectionDrops(R, c, lines, i + 1, currentName, currentPipeline,
                                currentTitle)

\* the loop of loadPipelinesFromString over lines[i..], and the flush after it
RECURSIVE loadLines(_, _, _, _, _, _, _)
loadLines(R, c, lines, i, currentName, currentPipeline, currentTitle) ==
    IF i > Len(lines) THEN flush(R, c, currentTitle, currentName, currentPipeline)
    ELSE IF lines[i] = <<>>
         THEN loadLines(R, c, lines, i + 1, currentName, currentPipeline, currentTitle)
    ELSE IF StartsWith(lines[i], SectionMark)
         THEN loadLines(flush(R, c, currentTitle, currentName, currentPipeline),
                        c, lines, i + 1, <<>>, <<>>, Trim(Tail(lines[i])))
    ELSE IF StartsWith(lines[i], PipelineMark)
         THEN loadLines(flush(R, c, currentTitle, currentName, currentPipeline),
                        c, lines, i + 1, Trim(Tail(lines[i])), <<>>, currentTitle)
    ELSE IF currentName # <<>>
         THEN loadLines(R, c, lines, i + 1, currentName,
                        Append(currentPipeline, lines[i]), currentTitle)
    ELSE loadLines(R, c, lines, i + 1, currentName, currentPipeline, currentTitle)

loadPipelinesFromString(R, c, str) ==
    loadLines(R, c, SplitLines(str), 1, <<>>, <<>>, <<>>)

\* container.loadPipelinesFromString(str), called once
LoadPipelinesFromString(c, str) ==
    /\ status = "idle"
    /\ SetReg(loadPipelinesFromString(RegState, c, str))
    /\ status' = "done"
    /\ UNCHANGED <<env, heap, stack, result, thrown, begun, parked>>

\* the lines the texts are made of: section headings, pipeline headings, body
\* lines, an empty line, headings without a title or a tag
SomeTextLines ==
    { <<"#", " ", "Default">>, <<"#", " ", "bot">>, <<"#", " ">>,
      <<"##", " ", "p">>, <<"##", " ", "q">>, <<"##", " ">>,
      <<"x">>, <<"$", "super">>, <<>> }

MaxLoad == 4

SomeTexts ==
    {Join(lines, "\n") : lines \in UNION {[1..n -> SomeTextLines] : n \in 0..MaxLoad}}
    \cup { <<"#", " ", "PIPELINES", "\r", "\n", "##", " ", "p", "\r", "x", "\r", "\n">>,
           <<"#", " ", " ", "bot", " ", "\n", "##", " ", " ", "p", " ", "\n", " ", "x">>,
           <<"#", "x", "\n", "##", " ", "p", "\n", "#", "x", "\n", "##", "q">> }

LoadCallers == {[c |-> "root", text |-> text] : text \in SomeTexts}

\* the container the text is loaded into: it has a pipeline q already
BeforeLoad == registerPipeline(Constructed, "root", <<"q">>, <<Line("z")>>, TRUE)

InitLoad ==
    /\ env \in LoadCallers
    /\ IsReg(BeforeLoad)
    /\ heap = EmptyMap
    /\ Idle

NextLoad == LoadPipelinesFromString(env.c, env.text)

SpecLoad == InitLoad /\ [][NextLoad]_vars

-----------------------------------------------------------------------------
(* Container.addClass, toJSON, fromJSON *)

\* where an object keeps the class it was made by; no property, so neither a
\* spread nor Object.assign copies it
ProtoKey == <<"[[Prototype]]">>
ClassNameKey == <<"className">>

\* a constructor: the fields it sets on what it makes, and whether its
\* instances have toJSON() and fromJSON(obj) of their own
Shape(cls, fields, hooks) == [cls |-> cls, fields |-> fields, hooks |-> hooks]

\* new Clazz(settings)
Make(H, at, Clazz) == (at :> ((ProtoKey :> Text(<<Clazz.cls>>)) @@ Clazz.fields)) @@ H

\* { ...instance }: the own properties
OwnFields(H, obj) == [key \in (DOMAIN H[obj.at]) \ {ProtoKey} |-> H[obj.at][key]]

\* instance.constructor.name
ConstructorName(H, obj) ==
    IF ProtoKey \in DOMAIN H[obj.at] THEN H[obj.at][ProtoKey].s ELSE <<"Object">>

\* Object.assign(target, source)
Assign(H, target, source) == [H EXCEPT ![target.at] = OwnFields(H, source) @@ @]

addClass(R, c, clazz, name) ==
    [R EXCEPT !.classes[c] = ((IF name # <<>> THEN name ELSE <<clazz.cls>>) :> clazz) @@ @]

\* the toJSON() and fromJSON(obj) of the callers' class that has them: a new
\* object with the fields of the instance, and the properties of obj taken over
CodecToJSON(H, instance) == OwnFields(H, instance)
CodecFromJSON(H, instance, obj) == Assign(H, instance, obj)

\* the result of toJSON is the object at `at`; hooked: instance.toJSON exists
toJSON(H, instance, hooked, at) ==
    (at :> ((ClassNameKey :> Text(ConstructorName(H, instance)))
               @@ (IF hooked THEN CodecToJSON(H, instance)
                   ELSE OwnFields(H, instance)))) @@ H

\* new Clazz(settings), then instance.fromJSON(obj) or Object.assign(instance, obj)
Revive(H, at, Clazz, obj) ==
    IF Clazz.hooks THEN CodecFromJSON(Make(H, at, Clazz), Ref(at), obj)
    ELSE Assign(Make(H, at, Clazz), Ref(at), obj)

\* this.classes[obj.className]
ClazzOf(R, H, c, obj) ==
    IF Member(H, obj, ClassNameKey).k = "string"
          /\ Member(H, obj, ClassNameKey).s \in DOMAIN R.classes[c]
    THEN R.classes[c][Member(H, obj, ClassNameKey).s]
    ELSE Shape("", EmptyMap, FALSE)

\* fromJSON that returns the instance with className on it
fromJSON_KeepsClassName(R, H, c, obj, at) ==
    IF ClazzOf(R, H, c, obj).cls # ""
    THEN Revive(H, at, ClazzOf(R, H, c, obj), obj)
    ELSE (at :> OwnFields(H, obj)) @@ H

\* the result of fromJSON is the object at `at`
fromJSON(R, H, c, obj, at) ==
    Remove(IF ClazzOf(R, H, c, obj).cls # ""
           THEN Revive(H, at, ClazzOf(R, H, c, obj), obj)
           ELSE (at :> OwnFields(H, obj)) @@ H,
           Ref(at), ClassNameKey)

\* the objects of a round trip: the instance, what toJSON returns, what
\* fromJSON returns, and an object a field may refer to
TheInstance == Ref(<<"instance", 0>>)
TheJSON == Ref(<<"json", 0>>)
TheRevived == Ref(<<"revived", 0>>)
TheOther == Ref(<<"other", 0>>)

AddClass(c, clazz, name) ==
    /\ status = "idle"
    /\ classes[c] = EmptyMap
    /\ SetReg(addClass(RegState, c, clazz, name))
    /\ UNCHANGED <<env, runVars>>

\* container.toJSON(instance)
ToJSON(c, instance, hooked) ==
    /\ status = "idle"
    /\ heap' = toJSON(heap, instance, hooked, TheJSON.at)
    /\ status' = "encoded"
    /\ result' = TheJSON
    /\ UNCHANGED <<regVars, stack, thrown, begun, parked>>

\* container.fromJSON(obj), with what toJSON returned
FromJSON(c, obj) ==
    /\ status = "encoded"
    /\ heap' = fromJSON(RegState, heap, c, obj, TheRevived.at)
    /\ status' = "done"
    /\ result' = TheRevived
    /\ UNCHANGED <<regVars, stack, thrown, begun, parked>>

\* the classes of the callers: one that sets nothing, one that sets a field,
\* one with toJSON and fromJSON of its own
SomeShapes ==
    { Shape("Point", EmptyMap, FALSE),
      Shape("Counter", (<<"a">> :> Num(0)), FALSE),
      Shape("Codec", (<<"b">> :> Text(<<"none">>)), TRUE) }

\* what the callers have assigned to the instance since it was made
SomeAssignments ==
    { a @@ b : a \in {EmptyMap, (<<"a">> :> Num(1)), (<<"a">> :> TheOther)},
               b \in {EmptyMap, (<<"b">> :> Text(<<"x">>)), (<<"b">> :> Undef)} }

\* the names the class is registered under: its own (<<>>), or another
JsonCallers ==
    { [c |-> c, clazz |-> clazz, name |-> name, assigned |-> assigned] :
         c \in Containers, clazz \in SomeShapes, name \in {<<>>, <<"Other">>},
         assigned \in SomeAssignments }

InitJson ==
    /\ env \in JsonCallers
    /\ IsReg(Constructed)
    /\ heap = [Make((TheOther.at :> EmptyMap), TheInstance.at, env.clazz)
                  EXCEPT ![TheInstance.at] = env.assigned @@ @]
    /\ Idle

NextJson ==
    \/ AddClass(env.c, env.clazz, env.name)
    \/ ToJSON(env.c, TheInstance, env.clazz.hooks)
    \/ FromJSON(env.c, TheJSON)

SpecJson == InitJson /\ [][NextJson]_vars

-----------------------------------------------------------------------------
(* Container.start *)

\* current.instance && current.instance.start: the components of the classes
\* Service and Failing expose start(); that of a Failing one rejects
ExposesStart(instance) == instance.k = "obj" /\ instance.cls \in {"Service", "Failing"}
StartRejects(instance) == instance.cls = "Failing"

\* Object.keys(this.factory)
Keys(items) == [i \in 1..Len(items) |-> items[i].name]

\* the {} start passes as input, and `this`
StartInput == Ref(<<"input", 1>>)
TheContainer(c) == Ref(<<"container", c>>)

\* the start() call in progress, if any: the last on record, not yet settled
AwaitingStart == started # <<>> /\ ~started[Len(started)].ended

\* factory[keys[i]] of the start in progress
Current == factory[starting.c][IndexOf(factory[starting.c], starting.keys[starting.i])]

\* container.start(pipelineName), up to its loop
Start(c, pipelineName) ==
    /\ status = "idle"
    /\ starting = NotStarting
    /\ SetReg([RegState EXCEPT !.starting = [c |-> c, keys |-> Keys(factory[c]), i |-> 1,
                                             pipelineName |-> pipelineName]])
    /\ status' = "starting"
    /\ UNCHANGED <<env, heap, stack, result, thrown, begun, parked>>

\* a turn of the loop for an item that is not started
StartSkip ==
    /\ status = "starting"
    /\ starting.i <= Len(starting.keys)
    /\ ~(Current.isSingleton /\ ExposesStart(Current.instance))
    /\ SetReg([RegState EXCEPT !.starting.i = @ + 1])
    /\ UNCHANGED <<env, runVars>>

\* a turn of the loop up to `await current.instance.start()`
StartCall ==
    /\ status = "starting"
    /\ starting.i <= Len(starting.keys)
    /\ ~AwaitingStart
    /\ Current.isSingleton /\ ExposesStart(Current.instance)
    /\ SetReg([RegState EXCEPT !.started =
                  Append(@, [id |-> Current.instance.id, ended |-> FALSE])])
    /\ UNCHANGED <<env, runVars>>

\* StartSettled that goes on to the next item whatever start() did
StartSettled_GoesOn ==
    /\ status = "starting"
    /\ AwaitingStart
    /\ SetReg([RegState EXCEPT !.started[Len(started)].ended = TRUE,
                               !.starting.i = @ + 1])
    /\ UNCHANGED <<env, runVars>>

\* the promise of start() settles: the loop goes on, or start rejects
StartSettled ==
    /\ status = "starting"
    /\ AwaitingStart
    /\ IF StartRejects(Current.instance) THEN Throw(RegState, heap, "StartError")
       ELSE /\ SetReg([RegState EXCEPT !.started[Len(started)].ended = TRUE,
                                       !.starting.i = @ + 1])
            /\ UNCHANGED <<env, runVars>>

\* after the loop: if (this.getPipeline(pipelineName)) await this.runPipeline(...)
StartPipeline ==
    /\ status = "starting"
    /\ starting.i > Len(starting.keys)
    /\ With(getPipeline(RegState, starting.c, starting.pipelineName), LAMBDA p :
          IF p.value = NullPipeline
          THEN /\ SetReg(p.R)
               /\ status' = "done"
               /\ UNCHANGED <<env, heap, stack, result, thrown, begun, parked>>
          ELSE With(runPipeline(p.R, (StartInput.at :> EmptyMap) @@ heap, begun,
                                starting.c, ByTag(starting.pipelineName), StartInput,
                                TheContainer(starting.c), 0),
                    LAMBDA r :
                      IF r.err # "" THEN Throw(r.R, r.H, r.err)
                      ELSE /\ SetReg(r.R)
                           /\ heap' = r.H
                           /\ stack' = <<r.frame>>
                           /\ status' = "running"
                           /\ begun' = begun + 1
                           /\ UNCHANGED <<result, thrown, env, parked>>))

\* the components the callers of start register
serviceA == Object(<<"given", 8>>, "Service", <<"a">>, FALSE)
serviceB == Object(<<"given", 9>>, "Service", <<"b">>, FALSE)
failing == Object(<<"given", 10>>, "Failing", <<"f">>, FALSE)
Service == Class("Service", FALSE)

Item(name, value, isSingleton) ==
    [name |-> name, value |-> value, isSingleton |-> isSingleton]

SomeItems ==
    { Item(<<"a">>, serviceA, TRUE), Item(<<"b">>, serviceB, TRUE),
      Item(<<"f">>, failing, TRUE), Item(<<"b">>, serviceB, FALSE),
      Item(<<"s">>, Service, TRUE), Item(<<"s">>, Service, FALSE),
      Item(<<"n">>, Undefined, TRUE), Item(<<"a">>, o1, TRUE) }

MaxItems == 3

SomeItemLists == UNION {[1..n -> SomeItems] : n \in 0..MaxItems}

\* the pipelines start may find: none, main (with a call and an awaited
\* method), one that matches main by wildcard only, one that does not match
SomeStartPipelines ==
    { <<>>,
      <<Tagged(<<"sub">>, <<Words(<< <<"stage">> >>)>>),
        Tagged(<<"main">>, << <<"$", "sub">>, Words(<< <<"later">> >>) >>)>>,
      <<Tagged(Star, <<Words(<< <<"stage">> >>)>>)>>,
      <<Tagged(<<"other">>, <<Words(<< <<"thrower">> >>)>>)>> }

StartCallers ==
    { [c |-> "root", components |-> <<stage, later, thrower>>, items |-> items,
       pipelines |-> tagged, pipelineName |-> <<"main">>] :
         items \in SomeItemLists, tagged \in SomeStartPipelines }

\* container.register(name, value, isSingleton) for each
RECURSIVE LoadItems(_, _, _)
LoadItems(R, c, items) ==
    IF items = <<>> THEN R
    ELSE LoadItems(register(R, c, Head(items).name, Head(items).value,
                            Head(items).isSingleton), c, Tail(items))

InitStart ==
    /\ env \in StartCallers
    /\ IsReg(LoadItems(Load(Constructed, env.c, env.components, env.pipelines),
                       env.c, env.items))
    /\ heap = GivenObjects @@ (TheContainer(env.c).at :> EmptyMap)
    /\ Idle

NextStart ==
    \/ Start(env.c, env.pipelineName)
    \/ StartSkip
    \/ StartCall
    \/ StartSettled
    \/ StartPipeline
    \/ ExecuteAction
    \/ Settle
    \/ ExecuteCall
    \/ Advance
    \/ Return

SpecStart == InitStart /\ [][NextStart]_vars

-----------------------------------------------------------------------------
(* Running pipelines: the counter loop, the recursion bound, the cursor *)

RunsCounterLoop(N) ==
    /\ env.run = ByTag(<<"count">>)
    /\ env.pipelines = <<Tagged(<<"count">>, CounterLoop(N))>>

\* C1 (as claimed): for every N >= 1 the counter loop, run with input = {},
\* resolves to the input object, and that object has count = N.
C1_CounterLoopReturnsInput ==
    \A N \in 1..MaxN :
        (RunsCounterLoop(N) /\ status = "done")
           => /\ result = TheInput
              /\ Member(heap, TheInput, <<"count">>) = Num(N)

RunsSelfCall == env.run = ByTag(<<"self">>)

\* the pipeline asked for is one the container has
RunsKnown ==
    \/ env.run.k = "lines"
    \/ IndexOfTag(pipelines[env.c], env.run.tag) # 0

\* C2: runPipeline invoked with depth d begins an execution iff d <= 10 and
\* rejects with the depth error, nothing executed, iff d > 10; no execution in
\* progress is deeper than 10; and the pipeline that only calls itself,
\* started at depth d <= 10, begins exactly 11 - d nested executions, one per
\* depth d..10, before the next invocation rejects the whole run with the depth
\* error (11 executions from depth 0).
C2_RecursionBound ==
    /\ \A i \in 1..Len(stack) : stack[i].depth <= DepthLimit
    /\ (status # "idle" /\ env.depth > DepthLimit)
          => /\ status = "thrown" /\ thrown = "DepthExceeded"
             /\ begun = 0 /\ heap = GivenObjects
    /\ (status # "idle" /\ env.depth <= DepthLimit /\ RunsKnown) => begun >= 1
    /\ (status = "thrown" /\ thrown = "DepthExceeded" /\ env.depth <= DepthLimit)
          => begun = DepthLimit + 1 - env.depth
    /\ (RunsSelfCall /\ status = "running")
          => /\ Len(stack) = begun
             /\ \A i \in 1..Len(stack) : stack[i].depth = env.depth + i - 1
    /\ (RunsSelfCall /\ status \notin {"idle", "running"})
          => status = "thrown" /\ thrown = "DepthExceeded" /\ stack = <<>>

\* the self-calling pipeline started at depth 0 has been rejected by the 12th
\* invocation, after 11 executions had begun
C2_Witness ==
    /\ RunsSelfCall
    /\ env.depth = 0
    /\ status = "thrown"
    /\ thrown = "DepthExceeded"
    /\ begun = DepthLimit + 1

\* the step just executed is a jump that transfers control
Transfers(H, frame) ==
    /\ frame.pc = "advance"
    /\ frame.last # <<>>
    /\ \/ frame.last[1].type = "goto"
       \/ frame.last[1].type = "je"
            /\ TruthyVal(Member(H, Ref(frame.context), <<"floating">>))
       \/ frame.last[1].type = "jne"
            /\ ~TruthyVal(Member(H, Ref(frame.context), <<"floating">>))

\* C3 (as claimed): in every state of every execution in progress the cursor
\* is an integer in [0, len(compiled)], and right after a goto / je / jne that
\* transfers control the cursor is the index findLabels recorded for the
\* label the step names, declared or not.
C3_CursorInvariant ==
    \A i \in 1..Len(stack) :
        /\ Cursor(heap, stack[i]).k = "number"
        /\ Cursor(heap, stack[i]).n >= 0
        /\ Cursor(heap, stack[i]).n <= Len(stack[i].compiled)
        /\ Transfers(heap, stack[i])
              => /\ stack[i].last[2].value \in DOMAIN findLabels(stack[i].compiled)
                 /\ Cursor(heap, stack[i])
                       = findLabels(stack[i].compiled)[stack[i].last[2].value]

-----------------------------------------------------------------------------
(* Reference lookups: what the maps alone, without any cache, answer *)

Asked == env.queries \cup env.names \cup {LoggerName}
AskedTags == env.tagQueries \cup env.tags

\* strict key first, else the first matching key in insertion order, else nothing
PlainItem(items, name) ==
    IF IndexOf(items, name) # 0 THEN items[IndexOf(items, name)]
    ELSE IF FirstMatch(items, name) # 0 THEN items[FirstMatch(items, name)]
    ELSE [name |-> NullKey, isSingleton |-> TRUE, instance |-> Undefined]

PlainValue(item, n) ==
    IF item.isSingleton THEN item.instance ELSE New(item.instance, n)

PlainPipeline(items, tag) ==
    IF IndexOfTag(items, tag) # 0 THEN items[IndexOfTag(items, tag)].built
    ELSE IF FirstMatchTag(items, tag) # 0 THEN items[FirstMatchTag(items, tag)].built
    ELSE NullPipeline

\* the container whose maps answer get(name) asked of c
RECURSIVE Answering(_, _)
Answering(c, name) ==
    IF IndexOf(factory[c], name) # 0 \/ Parent[c] = "none" THEN c
    ELSE Answering(Parent[c], name)

Returned(c, name) == get(RegState, c, name, "undefined").value

\* C4: cache transparency. In every state, get(q) and getPipeline(q) return
\* what the factory / pipelines maps answer without any cache: the strict key,
\* else the first matching key in insertion order, else nothing.
C4_CacheTransparency ==
    /\ \A c \in Containers : \A q \in Asked :
          Returned(c, q) = PlainValue(PlainItem(factory[Answering(c, q)], q), nextInst)
    /\ \A c \in Containers : \A t \in AskedTags :
          getPipeline(RegState, c, t).value = PlainPipeline(pipelines[c], t)

\* a wildcard match is cached for a component and for a pipeline alike, after
\* registrations
C4_Witness ==
    /\ AB \in DOMAIN bestKeys["root"]
    /\ bestKeys["root"][AB] = Star
    /\ <<"q">> \in DOMAIN cachePipelines["root"]
    /\ cachePipelines["root"][<<"q">>] # NullPipeline

\* C5 (as claimed): right after register returns cache.bestKeys is empty, and
\* right after a registerPipeline call that stores a pipeline returns
\* cache.pipelines is empty.
C5_CachesEmptyAfterRegistration ==
    [][/\ \A c \in env.containers, n \in env.names, v \in env.values, s \in BOOLEAN :
            Register(c, n, v, s) => bestKeys'[c] = EmptyMap
       /\ \A c \in env.containers, t \in env.tags, b \in env.bodies, o \in BOOLEAN :
            (RegisterPipeline(c, t, b, o) /\ (o \/ IndexOfTag(pipelines[c], t) = 0))
                => cachePipelines'[c] = EmptyMap]_vars

SingletonNames(c) ==
    {factory[c][i].name : i \in {j \in 1..Len(factory[c]) : factory[c][j].isSingleton}}

RegStateNext == [factory |-> factory', bestKeys |-> bestKeys', nextInst |-> nextInst',
                 applyLog |-> applyLog', compilers |-> compilers',
                 pipelines |-> pipelines', cachePipelines |-> cachePipelines']

ReturnedNext(c, name) == get(RegStateNext, c, name, "undefined").value

\* the name use() registers the item under
UseName(item, name) ==
    IF name # <<>> THEN name ELSE item.nm

RECURSIVE WithSettings(_)
WithSettings(log) ==
    IF log = <<>> THEN <<>>
    ELSE (IF Head(log).settings # "undefined" THEN <<Head(log)>> ELSE <<>>)
            \o WithSettings(Tail(log))

\* C8 (as claimed): the applySettings invocations are, one for one and in call
\* order, the gets of a singleton exposing it that passed settings; a get
\* without settings, the fetch a path makes included, invokes nothing.
C8_OncePerFetchWithSettings == applyLog = WithSettings(fetchLog)

\* C8 (amended): the applySettings invocations are, one for one and in call
\* order, all the gets that settled on a singleton exposing it, each with the
\* settings that get passed (undefined when none): an explicit get with or
\* without settings, the get of a path whose first token names the component,
\* the get of use with onlyIfNotExists.
C8_OncePerFetch == applyLog = fetchLog

\* the singleton has been fetched with two settings and once without: three
\* invocations, in call order
C8_Witness ==
    /\ Len(applyLog) = 3
    /\ applyLog[1].settings = "cfg1"
    /\ applyLog[2].settings = "cfg2"
    /\ applyLog[3].settings = "undefined"
    /\ \A i \in 1..3 : applyLog[i].id = tuned.id

\* the lookup order of the claim: own strict key, else the parent chain, else
\* the container's own wildcard match
RECURSIVE ClaimedLookup(_, _)
ClaimedLookup(c, name) ==
    IF IndexOf(factory[c], name) # 0
    THEN PlainValue(factory[c][IndexOf(factory[c], name)], nextInst)
    ELSE LET up == IF Parent[c] = "none" THEN Undefined
                   ELSE ClaimedLookup(Parent[c], name)
         IN  IF up # Undefined THEN up
             ELSE IF FirstMatch(factory[c], name) # 0
                  THEN PlainValue(factory[c][FirstMatch(factory[c], name)], nextInst)
                  ELSE Undefined

\* C9 (as claimed): get checks the own factory for the exact key, then asks the
\* parent, and when the parent has nothing resolves the name by wildcard
\* against its own keys.
C9_OwnWildcardAfterParent ==
    \A c \in Containers : \A q \in Asked : Returned(c, q) = ClaimedLookup(c, q)

\* the expansion of the claim: $super lines give way to the lines of prev but
\* those that begin with "->", every other line stays
RECURSIVE ClaimedSuper(_, _)
ClaimedSuper(lines, prev) ==
    IF lines = <<>> THEN <<>>
    ELSE IF Trim(Head(lines)) = <<"$", "super">>
         THEN SelectSeq(prev, LAMBDA l : Trim(l) = <<>> \/ Head(Trim(l)) # "->")
                 \o ClaimedSuper(Tail(lines), prev)
         ELSE <<Head(lines)>> \o ClaimedSuper(Tail(lines), prev)

\* the lines stored under exactly this tag, none if there is no such pipeline
StoredUnder(items, tag) ==
    IF IndexOfTag(items, tag) = 0 THEN <<>>
    ELSE items[IndexOfTag(items, tag)].built.pipeline

\* C10 (as claimed): when registerPipeline(tag, lines) stores a pipeline, each
\* $super line is replaced by the lines stored before under that same tag
\* (nothing if no pipeline was stored under it) but those that begin with "->",
\* and all other lines are kept in order.
C10_SuperFromSameTag ==
    [][\A c \in env.containers, t \in env.tags, b \in env.bodies, o \in BOOLEAN :
          (RegisterPipeline(c, t, b, o) /\ (o \/ IndexOfTag(pipelines[c], t) = 0))
             => StoredUnder(pipelines'[c], t)
                   = ClaimedSuper(b, StoredUnder(pipelines[c], t))]_vars

-----------------------------------------------------------------------------
(* Registration when something is stored already; the run of a pipeline *)

\* C11: a registerPipeline(tag, lines, false) call when a pipeline is stored
\* under tag, and a registerConfiguration(tag, cfg, false) call when a
\* configuration is stored under tag, return without an error and leave
\* pipelines, configurations, factory and both caches as they were.
C11_DuplicateIsNoOp ==
    [][/\ \A c \in env.containers, t \in env.tags, b \in env.bodies :
            (RegisterPipeline(c, t, b, FALSE) /\ IndexOfTag(pipelines[c], t) # 0)
               => UNCHANGED <<pipelines, configurations, factory, bestKeys,
                              cachePipelines>>
       /\ \A c \in env.containers, t \in env.tags, g \in env.configurations :
            (RegisterConfiguration(c, t, g, FALSE)
                /\ IndexOfTag(configurations[c], t) # 0)
               => UNCHANGED <<pipelines, configurations, factory, bestKeys,
                              cachePipelines>>]_vars

\* a pipeline and a configuration are stored under p, both caches hold an
\* entry: the state a duplicate registration is made in and leaves
C11_Witness ==
    /\ IndexOfTag(pipelines["root"], <<"p">>) # 0
    /\ ConfigurationAt(configurations["root"], <<"p">>) = "cfgA"
    /\ <<"q">> \in DOMAIN cachePipelines["root"]
    /\ AB \in DOMAIN bestKeys["root"]

\* the frames of the callers: every execute in progress but the innermost
Callers == 1..(Len(stack) - 1)

\* C12: nested calls resolve before the caller advances. While a callee runs
\* its callers wait at the call, input and cursor untouched; a callee returns
\* only with its loop finished, and what it returns is the caller's input when
\* the caller moves on to its next instruction; a step that returned a promise
\* holds the cursor until the promise settles, and the settled value is the
\* input of the next instruction.
C12_CalleeBeforeCaller ==
    /\ [](\A i \in Callers : stack[i].pc = "await")
    /\ [][/\ \A i \in Callers :
               (status' = "running" /\ i < Len(stack'))
                  => /\ stack'[i] = stack[i]
                     /\ Cursor(heap', stack[i]) = Cursor(heap, stack[i])
          /\ (status' = "running" /\ Len(stack') = Len(stack) - 1)
                  => /\ ~InLoop(heap, Top)
                     /\ stack'[Len(stack')] =
                           [stack[Len(stack')] EXCEPT !.input = Top.input,
                                                      !.pc = "advance"]
                     /\ Cursor(heap', stack'[Len(stack')])
                           = Cursor(heap, stack[Len(stack')])
          /\ (status = "running" /\ Top.pc = "pending" /\ status' = "running")
                  => /\ Len(stack') = Len(stack)
                     /\ stack'[Len(stack)].pc = "advance"
                     /\ stack'[Len(stack)].input = Top.awaited.settles
                     /\ Cursor(heap', Top) = Cursor(heap, Top)]_vars

\* the caller of OuterLines has gone on to its second instruction with what
\* its callee, whose last step awaited a promise, returned
C12_Witness ==
    /\ env.run = ByTag(<<"main">>)
    /\ env.pipelines[1].lines = << Words(<< <<"inc">>, InputN >>),
                                   Words(<< <<"later">> >>) >>
    /\ status = "running"
    /\ Len(stack) = 1
    /\ Top.pc = "step"
    /\ Cursor(heap, Top) = Num(1)
    /\ Top.input = Text(<<"late">>)
    /\ begun = 2

\* the error the instruction about to execute raises, "" when it raises none
Raised ==
    IF status # "running" THEN ""
    ELSE IF Top.pc = "pending" THEN Top.awaited.rejects
    ELSE IF Top.pc # "step" \/ ~InLoop(heap, Top) THEN ""
    ELSE IF IsCall(StepAt(heap, Top), Top.depth)
         THEN executeCall(RegState, heap, begun, Top.c, CallName(StepAt(heap, Top)),
                          Top.input, Top.srcObject, Top.depth).err
    ELSE executeAction(RegState, heap, Top.c, StepAt(heap, Top), Ref(Top.context),
                       Top.input, Top.srcObject, Top.depth).err

\* the instruction after the call, of OuterLines and of AgainLines, has executed
CallerWentOn == Member(heap, TheInput, <<"done">>) # Undef

\* C13: errors unwind without further execution. When an instruction raises
\* (a method throws or its promise rejects, the target of a call is missing,
\* a nested call exceeds the depth, a path is not found) the run ends at once
\* with that error and no result, every execute in progress abandoned, and
\* nothing executes after that.
C13_ErrorsUnwind ==
    /\ [](status = "thrown"
            => (stack = <<>> /\ result = Undef /\ thrown # "" /\ ~CallerWentOn))
    /\ [][/\ Raised # ""
               => /\ status' = "thrown"
                  /\ thrown' = Raised
                  /\ stack' = <<>>
                  /\ result' = result
          /\ (status' = "thrown" /\ status = "running") => Raised # ""
          /\ status = "thrown" => UNCHANGED vars]_vars

\* the callee of OuterLines has executed one instruction and its second has
\* thrown: the run is rejected and the caller's next instruction, which would
\* have set input.done, has not executed
C13_Witness ==
    /\ env.run = ByTag(<<"main">>)
    /\ env.pipelines[1].lines = << Words(<< <<"inc">>, InputN >>),
                                   Words(<< <<"thrower">> >>) >>
    /\ status = "thrown"
    /\ thrown = "MethodError"
    /\ begun = 2
    /\ Member(heap, TheInput, <<"n">>) # Undef
    /\ ~CallerWentOn

-----------------------------------------------------------------------------
(* start *)

\* the singletons of the starting container that expose start(), in the order
\* of the factory
Startable ==
    SelectSeq(factory[starting.c],
              LAMBDA item : item.isSingleton /\ ExposesStart(item.instance))

\* the start() calls on record are the first of them, in that order, each
\* settled before the next was made and none made after one that rejected;
\* with the pipeline running or start resolved, all of them have been made
StartsInOrder ==
    status # "idle" =>
        /\ Len(started) <= Len(Startable)
        /\ \A i \in 1..Len(started) :
              /\ started[i].id = Startable[i].instance.id
              /\ i < Len(started)
                    => (started[i].ended /\ ~StartRejects(Startable[i].instance))
        /\ status \in {"running", "done"}
              => /\ Len(started) = Len(Startable)
                 /\ \A i \in 1..Len(started) : started[i].ended
        /\ \A i \in 1..Len(started) :
              StartRejects(Startable[i].instance)
                 => (status \in {"starting", "thrown"} /\ begun = 0 /\ stack = <<>>)

\* a pipeline is stored under the very name start was given
Named == IndexOfTag(pipelines[starting.c], starting.pipelineName) # 0

\* getPipeline finds a pipeline for the name: under it or, failing that, under
\* the first tag that matches it
Found == PlainPipeline(pipelines[starting.c], starting.pipelineName) # NullPipeline

\* a pipeline is run only if there is one, and start resolves without a run
\* only if there is none
RunsIf(exists) ==
    status # "idle" =>
        /\ begun >= 1 => exists
        /\ status = "done" => (begun >= 1 <=> exists)

\* the run start makes is the first and only one: of that pipeline, with an
\* empty object as input and the container as srcObject
RunsOnce ==
    (stack = <<>> /\ stack' # <<>>)
        => /\ begun = 0
           /\ Len(stack') = 1
           /\ stack'[1].compiled
                 = PlainPipeline(pipelines[starting.c], starting.pipelineName).compiled
           /\ stack'[1].input = StartInput
           /\ StartInput.at \notin DOMAIN heap
           /\ heap'[StartInput.at] = EmptyMap
           /\ stack'[1].srcObject = TheContainer(starting.c)
           /\ stack'[1].depth = 0

\* C14 (as claimed): start calls start() on each singleton that exposes it,
\* in factory insertion order, one after the other has completed, never on a
\* non-singleton item; after all have completed, and only if a pipeline named
\* pipelineName exists, it runs that pipeline once with an empty input and the
\* container as srcObject; if a start() raises, no later singleton is started
\* and the pipeline is not run.
C14_RunsIfNamed ==
    /\ []StartsInOrder
    /\ []RunsIf(Named)
    /\ [][RunsOnce]_vars

\* C14 (amended): as claimed, but the pipeline that is run is the one
\* getPipeline(pipelineName) finds: the pipeline stored under pipelineName or,
\* when there is none, the first stored pipeline whose tag matches pipelineName
\* by wildcard; start runs nothing only if getPipeline finds nothing.
C14_RunsIfFound ==
    /\ []StartsInOrder
    /\ []RunsIf(Found)
    /\ [][RunsOnce]_vars

\* two singletons have been started in the order of their keys, a
\* non-singleton item and one without start() between them left alone, and
\* the main pipeline has run to its end
C14_Witness ==
    /\ env.items = << Item(<<"b">>, serviceB, TRUE), Item(<<"s">>, Service, FALSE),
                      Item(<<"a">>, serviceA, TRUE) >>
    /\ status = "done"
    /\ Named
    /\ started = << [id |-> serviceB.id, ended |-> TRUE],
                    [id |-> serviceA.id, ended |-> TRUE] >>
    /\ begun = 2

-----------------------------------------------------------------------------
(* The loader: what the text says is flushed, and where *)

\* line i is a '## tag' heading, with a tag
IsPipelineHeading(lines, i) ==
    StartsWith(lines[i], PipelineMark) /\ Trim(Tail(lines[i])) # <<>>

\* line i is a heading of either kind
IsHeading(lines, i) ==
    StartsWith(lines[i], SectionMark) \/ StartsWith(lines[i], PipelineMark)

\* the non-empty lines that follow heading i up to the next heading or the end
BodyOf(lines, i) ==
    LET next == {j \in (i + 1)..Len(lines) : IsHeading(lines, j)}
        end == IF next = {} THEN Len(lines) + 1
               ELSE CHOOSE j \in next : \A k \in next : j <= k
    IN  SelectSeq(SubSeq(lines, i + 1, end - 1), LAMBDA l : l # <<>>)

\* the title of the section that encloses line i, <<>> when no section does
TitleOf(lines, i) ==
    LET before == {j \in 1..(i - 1) : StartsWith(lines[j], SectionMark)}
    IN  IF before = {} THEN <<>>
        ELSE Trim(Tail(lines[CHOOSE j \in before : \A k \in before : k <= j]))

\* the title is absent, or is 'default' or 'pipelines' in any case
OwnTitle(title) ==
    title = <<>> \/ toLowerCase(title) \in {<<"default">>, <<"pipelines">>}

\* one flush per '## tag' heading from line i on, in textual order
RECURSIVE ClaimedFlushes(_, _)
ClaimedFlushes(lines, i) ==
    IF i > Len(lines) THEN <<>>
    ELSE IF IsPipelineHeading(lines, i)
         THEN << [title |-> TitleOf(lines, i), tag |-> Trim(Tail(lines[i])),
                  body |-> BodyOf(lines, i)] >> \o ClaimedFlushes(lines, i + 1)
    ELSE ClaimedFlushes(lines, i + 1)

\* registerPipeline(tag, body) for each of the flushes, in order
RECURSIVE RegisterEach(_, _, _)
RegisterEach(R, c, flushes) ==
    IF flushes = <<>> THEN R
    ELSE RegisterEach(registerPipeline(R, c, Head(flushes).tag, Head(flushes).body, TRUE),
                      c, Tail(flushes))

\* the titles of the flushes, each once, in the order they first appear
RECURSIVE TitlesOf(_, _)
TitlesOf(flushes, seen) ==
    IF flushes = <<>> THEN <<>>
    ELSE IF Head(flushes).title \in seen THEN TitlesOf(Tail(flushes), seen)
    ELSE <<Head(flushes).title>>
            \o TitlesOf(Tail(flushes), seen \cup {Head(flushes).title})

\* what registerPipelineForChilds has kept after these flushes: under each
\* title the flushes of that title, in order
KeptForChilds(flushes) ==
    LET titles == TitlesOf(flushes, {})
    IN  [n \in 1..Len(titles) |->
            LET mine == SelectSeq(flushes, LAMBDA f : f.title = titles[n])
            IN  [childName |-> titles[n],
                 entries |-> [k \in 1..Len(mine) |->
                                [tag |-> mine[k].tag, pipeline |-> mine[k].body,
                                 overwrite |-> TRUE]]]]

TextFlushes == ClaimedFlushes(SplitLines(env.text), 1)

\* C15: loadPipelinesFromString flushes every '## tag' body once, in textual
\* order, the body being the non-empty lines from the heading to the next
\* heading or the end of the text: to registerPipeline when the enclosing
\* section title is absent or is 'default' or 'pipelines' in any case, and
\* otherwise to registerPipelineForChilds under that title, which leaves the
\* container's own pipelines as they were.
C15_LoaderRouting ==
    status = "done" =>
        /\ [RegState EXCEPT !.childPipelines = BeforeLoad.childPipelines]
              = RegisterEach(BeforeLoad, env.c,
                             SelectSeq(TextFlushes, LAMBDA f : OwnTitle(f.title)))
        /\ childPipelines[env.c]
              = KeptForChilds(SelectSeq(TextFlushes, LAMBDA f : ~OwnTitle(f.title)))
        /\ (\A k \in 1..Len(TextFlushes) : ~OwnTitle(TextFlushes[k].title))
              => pipelines = BeforeLoad.pipelines

\* a text with a pipeline before any section, one in a section of the
\* container and one in a section of a child has been loaded
C15_Witness ==
    /\ status = "done"
    /\ env.text = Join(<< <<"##", " ", "p">>, <<"x">>, <<"#", " ", "bot">>,
                         <<"##", " ", "q">> >>, "\n")
    /\ Len(pipelines[env.c]) = 2
    /\ StoredUnder(pipelines[env.c], <<"p">>) = << <<"x">> >>
    /\ StoredUnder(pipelines[env.c], <<"q">>) = << <<"z">> >>
    /\ childPipelines[env.c]
          = << [childName |-> <<"bot">>,
                entries |-> << [tag |-> <<"q">>, pipeline |-> <<>>,
                                overwrite |-> TRUE] >>] >>

-----------------------------------------------------------------------------
(* The round trip through toJSON and fromJSON *)

\* the class of the instance is registered under its constructor's name
Registered ==
    /\ ConstructorName(heap, TheInstance) \in DOMAIN classes[env.c]
    /\ classes[env.c][ConstructorName(heap, TheInstance)] = env.clazz

\* C16: for an instance x of a class registered with addClass under
\* x.constructor.name, fromJSON(toJSON(x)) returns an instance of that class
\* whose fields equal those of x and that has no className property, and
\* fromJSON leaves its argument, the object toJSON returned, as it was; x is
\* as it was too.
C16_RoundTrip ==
    /\ status = "encoded"
          => heap[TheJSON.at] = (ClassNameKey :> Text(<<env.clazz.cls>>))
                                   @@ OwnFields(heap, TheInstance)
    /\ (status = "done" /\ Registered)
          => /\ result = TheRevived
             /\ ConstructorName(heap, TheRevived) = ConstructorName(heap, TheInstance)
             /\ OwnFields(heap, TheRevived) = OwnFields(heap, TheInstance)
             /\ ClassNameKey \notin DOMAIN heap[TheRevived.at]
             /\ heap[TheJSON.at] = (ClassNameKey :> Text(<<env.clazz.cls>>))
                                      @@ OwnFields(heap, TheInstance)
    /\ heap[TheInstance.at] = (ProtoKey :> Text(<<env.clazz.cls>>))
                                 @@ env.assigned @@ env.clazz.fields

\* an instance that differs from what its constructor makes, one field
\* referring to another object, has made the round trip
C16_Witness ==
    /\ status = "done"
    /\ Registered
    /\ env.clazz.cls = "Counter"
    /\ OwnFields(heap, TheRevived)
          = (<<"a">> :> TheOther) @@ (<<"b">> :> Text(<<"x">>))

-----------------------------------------------------------------------------
(* The compilers of a container *)

\* the compiler the three cases give: the one stored under the name in the
\* container, else what the parent answers, else the default of the container
RECURSIVE AnswerOf(_, _)
AnswerOf(c, name) ==
    IF name \in compilers[c] THEN CompilerAt(c, name)
    ELSE IF Parent[c] # "none" THEN AnswerOf(Parent[c], name)
    ELSE CompilerAt(c, <<"default">>)

\* the pipelines of container c that the step stores or replaces
StoredNow(c) ==
    {i \in 1..Len(pipelines'[c]) :
        i > Len(pipelines[c]) \/ pipelines'[c][i] # pipelines[c][i]}

NamesUnregistered(c, pipeline) ==
    /\ CompilerOf(pipeline) # <<"default">>
    /\ \A a \in Containers : CompilerOf(pipeline) \notin compilers[a]

-----------------------------------------------------------------------------
(* Steps for the top level only *)

\* execute is about to hand a step that begins with "->" to executeAction
AtArrowStep ==
    /\ status = "running"
    /\ Top.pc = "step"
    /\ InLoop(heap, Top)
    /\ Arrowed(StepAt(heap, Top))

\* the step the same line compiles to without its "->"
Plain(step) == <<getTokenFromWord(Tail(step[1].value))>> \o Tail(step)

OutcomeOf(step) ==
    executeAction(RegState, heap, Top.c, step, Ref(Top.context), Top.input,
                  Top.srcObject, Top.depth)

\* the step does what the line without "->" does: the same call, or the same
\* effect, result and error
AsPlain(step) ==
    IF Plain(step)[1].type = "call"
    THEN IsCall(step, Top.depth) /\ CallName(step) = Plain(step)[1].value
    ELSE ~IsCall(step, Top.depth) /\ OutcomeOf(step) = OutcomeOf(Plain(step))

\* in a callee the step is skipped: the input, the objects and the registry stay
ArrowSkipped ==
    [][(AtArrowStep /\ Top.depth > 0)
          => /\ status' = "running"
             /\ Len(stack') = Len(stack)
             /\ stack'[Len(stack)].input = Top.input
             /\ stack'[Len(stack)].pc = "advance"
             /\ heap' = heap
             /\ UNCHANGED regVars]_vars

ArrowAtTopAsPlain == [](AtArrowStep /\ Top.depth = 0 => AsPlain(StepAt(heap, Top)))

\* the same, for the lines whose first word without "->" is a reference
ArrowReferenceAsPlain ==
    [](AtArrowStep /\ Top.depth = 0
                   /\ Plain(StepAt(heap, Top))[1].type = "reference"
          => AsPlain(StepAt(heap, Top)))

\* C18: a step whose first word begins with "->" is skipped at depth > 0, the
\* input and everything else unchanged, and at depth 0 it has the effect and
\* the result of the same line without the "->", whatever the word is
C18_ArrowPrefix == ArrowSkipped /\ ArrowAtTopAsPlain
-----------------------------------------------------------------------------
(* Jumps *)

IsJump(step) == step # <<>> /\ step[1].type \in {"goto", "je", "jne"} /\ Len(step) >= 2

\* the lines of the program that declare the label
LabelLines(frame, label) ==
    {i \in 1..Len(frame.compiled) :
        /\ frame.compiled[i][1].type = "label"
        /\ Len(frame.compiled[i]) >= 2
        /\ frame.compiled[i][2].value = label}

\* the line of `label L`, the last one when the program has several
LabelLine(frame, label) ==
    CHOOSE i \in LabelLines(frame, label) : \A j \in LabelLines(frame, label) : j <= i

Floating(frame) == Member(heap, Ref(frame.context), <<"floating">>)

Jumped(step, frame) ==
    \/ step[1].type = "goto"
    \/ step[1].type = "je" /\ TruthyVal(Floating(frame))
    \/ step[1].type = "jne" /\ ~TruthyVal(Floating(frame))

\* the loop of execute is back at its test, and the step before was a jump to a
\* label of the program
AfterJump ==
    /\ status = "running"
    /\ Top.pc = "step"
    /\ IsJump(Top.last)
    /\ LabelLines(Top, Top.last[2].value) # {}

\* the instruction at the cursor is line i of the program (no instruction when
\* i is past the last line: the loop ends)
NextIsLine(i) == Cursor(heap, Top) = Num(i - 1)

\* C19: after a je with context.floating truthy, a jne with it falsy (also when
\* no comparison has set it) and after any goto, the next instruction is the one
\* that follows `label L`, wherever the label is declared; after a je or jne
\* that does not transfer, it is the one that follows the jump
C19_Jumps ==
    AfterJump =>
        IF Jumped(Top.last, Top)
        THEN NextIsLine(LabelLine(Top, Top.last[2].value) + 1)
        ELSE /\ Cursor(heap, Top).k = "number"
             /\ Cursor(heap, Top).n \in 1..Len(Top.compiled)
             /\ Top.compiled[Cursor(heap, Top).n] = Top.last

\* a jne before any comparison has jumped ahead to a label declared after it
C19_Witness ==
    /\ AfterJump
    /\ Top.last[1].type = "jne"
    /\ Floating(Top).k = "undefined"
    /\ Top.compiled[1] = Top.last
    /\ LabelLine(Top, Top.last[2].value) = 3
    /\ NextIsLine(4)
-----------------------------------------------------------------------------
(* Empty lines *)

IsEmptyLine(line) == Trim(line) = <<>>

\* the instruction an empty line compiles to
EmptyStep == compile(<<EmptyLine>>)[1]

\* every empty line of a stored pipeline is compiled to no tokens
EmptyLinesCompileToNothing ==
    \A c \in Containers : \A i \in 1..Len(pipelines[c]) :
        \A l \in 1..Len(pipelines[c][i].built.pipeline) :
            IsEmptyLine(pipelines[c][i].built.pipeline[l])
               => pipelines[c][i].built.compiled[l] = <<>>

\* the step of an empty line leaves the input, the objects and the registry
EmptyStepKeeps ==
    (/\ status = "running"
     /\ Top.pc = "step"
     /\ InLoop(heap, Top)
     /\ StepAt(heap, Top) = EmptyStep)
        => /\ status' = "running"
           /\ Len(stack') = Len(stack)
           /\ stack'[Len(stack)].input = Top.input
           /\ heap' = heap
           /\ UNCHANGED regVars

\* a program of empty lines only returns the input it was given
OnlyEmptyLines ==
    \A i \in 1..Len(env.pipelines) : \A l \in 1..Len(env.pipelines[i].lines) :
        IsEmptyLine(env.pipelines[i].lines[l])

\* C20: an empty line, or one of spaces only, compiles to an instruction without
\* tokens; executing it changes neither the input, the context nor the registry,
\* and the result of the pipeline is the one it has without the line
C20_EmptyLines ==
    /\ [](EmptyLinesCompileToNothing)
    /\ [][EmptyStepKeeps]_vars
    /\ [](status = "done" /\ OnlyEmptyLines => result = TheInput)
-----------------------------------------------------------------------------
(* The result of a reference *)

\* execute is about to hand a reference to executeAction
AtReferenceStep ==
    /\ status = "running"
    /\ Top.pc = "step"
    /\ InLoop(heap, Top)
    /\ StepAt(heap, Top) # <<>>
    /\ StepAt(heap, Top)[1].type = "reference"
    /\ ~Arrowed(StepAt(heap, Top))

\* what the path of the reference resolves to, and its arguments
Referred ==
    resolvePath(RegState, heap, Top.c, StepAt(heap, Top)[1].value, Ref(Top.context),
                Top.input, Top.srcObject)

ReferredArgs ==
    resolveArgs(Referred.R, heap, Top.c, StepAt(heap, Top), 2, Ref(Top.context),
                Top.input, Top.srcObject)

\* the step has returned v: it is the input of the next step
StepGave(v) ==
    /\ status' = "running"
    /\ Len(stack') = Len(stack)
    /\ IF v.k = "promise" THEN stack'[Len(stack)].awaited = v
       ELSE stack'[Len(stack)].input = v

RaisedNow(e) == status' = "thrown" /\ thrown' = e

\* run(input, args...) on the object, or the callable itself on (input, args...)
Invoked(method) ==
    LET called == callMethod(ReferredArgs.R, heap, method, Top.input, ReferredArgs.value)
    IN  IF called.err # "" THEN RaisedNow(called.err) ELSE StepGave(called.value)

\* C21: a reference to an object with a run member invokes run bound to the
\* object with (input, args...), a reference to a callable invokes it with
\* (input, args...), and any other value that is not absent, 0, false and the
\* empty string included, is the result; the method-not-found error is raised
\* only when the path resolves to nothing
C21_ReferenceResult ==
    [][(AtReferenceStep /\ Referred.err = "" /\ ReferredArgs.err = "")
          => IF Referred.value.k = "undefined" THEN RaisedNow("MethodNotFound")
             ELSE IF Referred.value.k = "object"
                       /\ Member(heap, Referred.value, <<"run">>).k = "function"
                  THEN Invoked(Fn(Member(heap, Referred.value, <<"run">>).s,
                                  Referred.value.at))
             ELSE IF Referred.value.k = "function" THEN Invoked(Referred.value)
             ELSE StepGave(Referred.value)]_vars

\* the same, but for the values that are falsy
C21_TruthyReferenceResult ==
    [][(AtReferenceStep /\ Referred.err = "" /\ ReferredArgs.err = "")
          => IF ~TruthyVal(Referred.value) THEN RaisedNow("MethodNotFound")
             ELSE IF Referred.value.k = "object"
                       /\ Member(heap, Referred.value, <<"run">>).k = "function"
                  THEN Invoked(Fn(Member(heap, Referred.value, <<"run">>).s,
                                  Referred.value.at))
             ELSE IF Referred.value.k = "function" THEN Invoked(Referred.value)
             ELSE StepGave(Referred.value)]_vars
-----------------------------------------------------------------------------
(* get and resolvePath *)

AtGetStep ==
    /\ status = "running"
    /\ Top.pc = "step"
    /\ InLoop(heap, Top)
    /\ StepAt(heap, Top) # <<>>
    /\ StepAt(heap, Top)[1].type = "get"

\* the path of the get, "floating" when it has none
GetPath == PathOrFloating(ValueAt(StepAt(heap, Top), 2, NoValue))

\* resolvePath of that path in the context, input and srcObject of the step
GetResolved ==
    resolvePath(RegState, heap, Top.c, GetPath, Ref(Top.context), Top.input,
                Top.srcObject)

\* C23: 'get p' returns what resolvePath(p) gives in the same context, input
\* and srcObject, and 'get' alone what resolvePath("floating") gives, for
\* dotted paths and for single tokens that name a root or a component
C23_GetIsResolvePath ==
    [][(AtGetStep /\ GetResolved.err = "") => StepGave(GetResolved.value)]_vars

\* the same for the paths of two tokens or more, and for no path
C23_GetOfMember ==
    [][(AtGetStep /\ GetResolved.err = ""
                  /\ (Len(Split(GetPath, ".")) >= 2 \/ GetPath = <<"floating">>))
          => StepGave(GetResolved.value)]_vars
-----------------------------------------------------------------------------
(* The location a setter addresses *)

Runs(program) == env.pipelines = <<Tagged(<<"s">>, program)>>

\* the run of the program does not reject, and resolves to the value
Gives(program, value) ==
    Runs(program) => /\ status # "thrown"
                     /\ status = "done" => result = value

\* set, inc, dec, delete and get of the path address one location
OneLocation(path) ==
    \A a \in SomeAmounts, b \in SomeAmounts :
        /\ Gives(AddProgram(path, a, b), Num(a + b))
        /\ Gives(AddBackProgram(path, a, b), Num(a))
        /\ Gives(TakeProgram(path, a, b), Num(a - b))
        /\ Gives(DeleteProgram(path, a), Undef)

\* C24: set, inc, dec and delete act on the member the last token of p names
\* in the parent the rest of p resolves to: 'set p a; inc p b; get p' returns
\* a + b and 'set p a; inc p b; dec p b; get p' returns a, also for the paths
\* that begin with '.'
C24_OneLocation == \A path \in SetterPaths : OneLocation(path)

\* the same for the paths that do not begin with '.'
C24_OneLocationOfInput == OneLocation(InputN)

\* without inc, the paths of srcObject with a member to walk through as well
C24_SetDecDelete ==
    \A a \in SomeAmounts, b \in SomeAmounts :
        /\ Gives(TakeProgram(<<".", "a", ".", "n">>, a, b), Num(a - b))
        /\ Gives(DeleteProgram(<<".", "a", ".", "n">>, a), Undef)
-----------------------------------------------------------------------------
(* The walk along a dotted path *)

\* dotted paths over the input, srcObject and names nobody registered
WalkPaths ==
    { InputN,
      <<"input", ".", "n", ".", "x">>,
      <<"input", ".", "a", ".", "b">>,
      <<"input", ".", "a", ".", "b", ".", "c">>,
      <<"this", ".", "a", ".", "n">>,
      <<"missing", ".", "x">>,
      <<"missing", ".", "x", ".", "y">> }

Walked(path) ==
    resolvePathWithType(RegState, heap, Top.c, path, Ref(Top.context), Top.input,
                        Top.srcObject)

\* what the first token of the path resolves to
RootOf(path) == Walked(Split(path, ".")[1]).value

Absent(v) == v.k = "undefined"

\* the walk from token i on: it fails where the object is absent or lacks the
\* member before the last token, and gives an absent value where it does so at
\* the last
RECURSIVE WalkFrom(_, _, _)
WalkFrom(obj, tokens, i) ==
    IF i > Len(tokens) THEN [err |-> "", value |-> obj]
    ELSE IF Absent(obj) \/ Absent(Member(heap, obj, tokens[i]))
         THEN IF i < Len(tokens) THEN [err |-> "PathNotFound", value |-> Undef]
              ELSE [err |-> "", value |-> Undef]
    ELSE WalkFrom(Member(heap, obj, tokens[i]), tokens, i + 1)

AsWalked(path) ==
    /\ Walked(path).err = WalkFrom(RootOf(path), Split(path, "."), 2).err
    /\ Walked(path).err = ""
          => /\ Walked(path).value = WalkFrom(RootOf(path), Split(path, "."), 2).value
             /\ Walked(path).type = "reference"

InARun == status = "running" /\ stack # <<>>

\* C25: a path of two tokens or more fails with the path-not-found error iff
\* the chain breaks before its last token; when it breaks at the last token,
\* also for a two-token path whose root is absent, there is no error and the
\* result is a reference with an absent value
C25_PathWalk == InARun => \A path \in WalkPaths : AsWalked(path)

\* the same for the paths whose root is there, over objects whose members
\* on the way are absent or truthy
C25_PathWalkFromRoot ==
    InARun => \A path \in WalkPaths :
                 (/\ ~Absent(RootOf(path))
                  /\ \/ Absent(Member(heap, Top.input, <<"n">>))
                     \/ TruthyVal(Member(heap, Top.input, <<"n">>)))
                    => AsWalked(path)
-----------------------------------------------------------------------------
(* The verdict of a comparison *)

AtCompareStep ==
    /\ status = "running"
    /\ Top.pc = "step"
    /\ InLoop(heap, Top)
    /\ StepAt(heap, Top) # <<>>
    /\ StepAt(heap, Top)[1].type \in CompareOps
    /\ Len(StepAt(heap, Top)) >= 3
    /\ Walked(StepAt(heap, Top)[2].value).err = ""
    /\ Walked(StepAt(heap, Top)[3].value).err = ""

LeftValue == Walked(StepAt(heap, Top)[2].value).value
RightValue == Walked(StepAt(heap, Top)[3].value).value

\* a == b for numbers, strings, booleans and undefined
LaxEquals(a, b) ==
    IF a.k = b.k THEN StrictEquals(a, b)
    ELSE /\ a.k \in {"number", "string", "boolean"}
         /\ b.k \in {"number", "string", "boolean"}
         /\ ToNumber(a).k = "number"
         /\ ToNumber(a) = ToNumber(b)

LaxVerdict(op, a, b) ==
    CASE op = "eq" -> LaxEquals(a, b)
      [] op = "neq" -> ~LaxEquals(a, b)
      [] OTHER -> Compares(op, a, b)

\* the step writes the verdict into context.floating and nothing else
Writes(verdict) ==
    /\ heap' = Store(heap, Ref(Top.context), <<"floating">>, Bool(verdict))
    /\ status' = "running"
    /\ Len(stack') = Len(stack)
    /\ stack'[Len(stack)].input = Top.input
    /\ UNCHANGED regVars

\* C26: eq, neq, gt, ge, lt and le write a boolean into context.floating and
\* change nothing else; eq is lax equality, true for the number n and the
\* string of its numeral (neq false), the verdict ge and le reach by coercion
C26_ComparisonResults ==
    [][AtCompareStep
          => Writes(LaxVerdict(StepAt(heap, Top)[1].type, LeftValue, RightValue))]_vars

\* the same with eq and neq as === and !==
C26_StrictResults ==
    [][AtCompareStep
          => Writes(Compares(StepAt(heap, Top)[1].type, LeftValue, RightValue))]_vars
-----------------------------------------------------------------------------
(* The context of an invocation *)

\* the invocations in progress: those of the run that waits, then those of the
\* run that executes, the executing one last
InProgress == parked \o stack

\* the invocations other than the executing one
Waiting == SubSeq(InProgress, 1, Len(InProgress) - 1)

\* the cursor and floating of the invocation, and its labels
ContextIn(H, frame) ==
    <<H[frame.context], H[Member(H, Ref(frame.context), <<"labels">>).at]>>

\* each invocation in progress has a context and labels of its own
OwnContexts ==
    \A i, j \in 1..Len(InProgress) :
        i # j => /\ InProgress[i].context # InProgress[j].context
                 /\ Member(heap, Ref(InProgress[i].context), <<"labels">>)
                       # Member(heap, Ref(InProgress[j].context), <<"labels">>)

AtCall ==
    /\ Top.pc = "step"
    /\ InLoop(heap, Top)
    /\ IsCall(StepAt(heap, Top), Top.depth)

\* a step leaves the context of every invocation but the executing one, and a
\* Call, from its step to its return, leaves that of the caller
OthersKept ==
    status = "running"
       => /\ \A i \in 1..Len(Waiting) :
                ContextIn(heap', Waiting[i]) = ContextIn(heap, Waiting[i])
          /\ AtCall => ContextIn(heap', Top) = ContextIn(heap, Top)

\* C22: each execute has a cursor, labels and floating of its own; no step of a
\* callee or of another invocation interleaved at an await changes those of
\* an invocation that waits, so a caller finds its cursor and floating after a
\* Call as they were before it
C22_PrivateContexts == [](status = "running" => OwnContexts) /\ [][OthersKept]_vars

\* the caller is back from its Call with floating false as before, the callee
\* has left floating true in its context, and a second run is in progress
\* that has compared as well
C22_Witness ==
    /\ status = "running"
    /\ parked # <<>>
    /\ Len(stack) = 1
    /\ Top.pc = "advance"
    /\ Top.last # <<>>
    /\ Top.last[1].type = "call"
    /\ Top.compiled = compile(TwoMain)
    /\ Floating(Top) = Bool(FALSE)
    /\ Cursor(heap, Top) = Num(1)
    /\ Member(heap, Ref(parked[Len(parked)].context), <<"floating">>) = Bool(TRUE)
    /\ \E n \in 0..MaxTwo :
          /\ <<"context", n>> \in DOMAIN heap
          /\ <<"context", n>> # Top.context
          /\ <<"context", n>> # parked[Len(parked)].context
          /\ Member(heap, Ref(<<"context", n>>), <<"floating">>) = Bool(TRUE)
====
